---------------------------- MODULE Spec2Model ----------------------------
(***************************************************************************)
(* Model of the order API of orne-api: the paginated list handler of       *)
(* src/api/shopify-proxy.js (lines 46-503) with its helpers isValidOrder,  *)
(* isOrderDelivered and calculateUrgencyLevel, and the tracking-number     *)
(* aggregation of the detail handlers of src/api/order-details.js.         *)
(*                                                                         *)
(* JSON values are modelled with one TLA+ type per field:                  *)
(*   - a string field is a TLA+ string, Null standing for null/undefined;  *)
(*   - a free-text field (tags, note) is a record [kind, text], text a     *)
(*     sequence of characters, kind "other" a truthy value that is not a   *)
(*     string (a number, an array);                                        *)
(*   - an array field is a record [kind, items];                           *)
(*   - a timestamp is a sequence, <<>> for an absent one and <<t>> for the *)
(*     instant t, counted in hours.                                        *)
(***************************************************************************)
EXTENDS Integers, Sequences, FiniteSets, TLC

VARIABLES
    calls,           \* the invocations in flight at once, each with its
                     \* requests, answers and response
    scopes,          \* the bindings of the handler bodies that live across
                     \* an await, one scope per invocation
    variant,         \* the handler invoked: 0 the list handler, 1..3 the
                     \* handlers of order-details.js in file order
    query,           \* req.query.orderId
    env,             \* process.env of the invocation
    method,          \* req.method
    pc,              \* position of the list handler
    pageCount,       \* let pageCount          (shopify-proxy.js:265)
    allOrders,       \* let allOrders          (shopify-proxy.js:263)
    currentPageInfo, \* let currentPageInfo    (shopify-proxy.js:264)
    sent,            \* the listing requests issued so far, oldest first
    received,        \* the upstream responses received so far, oldest first
    res,             \* the responses sent on res, oldest first
    order,           \* the record a helper is applied to
    result           \* what the helper returned

vars == <<calls, scopes, variant, query, env, method, pc, pageCount, allOrders, currentPageInfo,
          sent, received, res, order, result>>

listVars == <<calls, scopes, variant, query, env, method, pc, pageCount, allOrders, currentPageInfo,
              sent, received, res>>

-----------------------------------------------------------------------------
(* JavaScript values *)

Null == "null"

\* A string is truthy unless it is null, undefined or empty.
Truthy(s) == s # Null /\ s # ""

Min(a, b) == IF a < b THEN a ELSE b

\* What a helper does: return a value, or throw.
Returns(v) == [threw |-> FALSE, value |-> v]
Throws == [threw |-> TRUE, value |-> FALSE]

NoText == [kind |-> "null", text |-> <<>>]
Str(s) == [kind |-> "str", text |-> s]
NotAString == [kind |-> "other", text |-> <<>>]

\* if (x) on a free-text field: null, undefined and "" are falsy.
TruthyText(x) == x.kind = "other" \/ (x.kind = "str" /\ x.text # <<>>)

NoArray == [kind |-> "null", items |-> <<>>]
Arr(s) == [kind |-> "arr", items |-> s]

\* String.prototype.toLowerCase, on the letters A-Z.
LowerChar(c) ==
    CASE c = "A" -> "a" [] c = "B" -> "b" [] c = "C" -> "c" [] c = "D" -> "d"
      [] c = "E" -> "e" [] c = "F" -> "f" [] c = "G" -> "g" [] c = "H" -> "h"
      [] c = "I" -> "i" [] c = "J" -> "j" [] c = "K" -> "k" [] c = "L" -> "l"
      [] c = "M" -> "m" [] c = "N" -> "n" [] c = "O" -> "o" [] c = "P" -> "p"
      [] c = "Q" -> "q" [] c = "R" -> "r" [] c = "S" -> "s" [] c = "T" -> "t"
      [] c = "U" -> "u" [] c = "V" -> "v" [] c = "W" -> "w" [] c = "X" -> "x"
      [] c = "Y" -> "y" [] c = "Z" -> "z"
      [] OTHER -> c

toLowerCase(s) == [i \in DOMAIN s |-> LowerChar(s[i])]

\* String.prototype.includes: sub occurs in s as a contiguous substring.
includes(s, sub) ==
    \E i \in 0..(Len(s) - Len(sub)) : SubSeq(s, i + 1, i + Len(sub)) = sub

-----------------------------------------------------------------------------
(* Time.  Date.now() and the created_at instants are counted in hours.     *)

HoursPerDay == 24

\* Date.now() of the invocation.
Now == 2400

At(t) == <<t>>
NoTime == <<>>

\* Math.floor((Date.now() - new Date(created_at)) / (1000*60*60*24)); \div
\* rounds towards minus infinity, as Math.floor does.
daysPassedOf(created_at) == (Now - created_at[1]) \div HoursPerDay

\* created_at of a record that is d whole days and h hours old.
Aged(d, h) == At(Now - (d * HoursPerDay + h))


-----------------------------------------------------------------------------
(* Upstream records *)

\* A fulfillment with every field absent.
NoFulfillment ==
    [isNull |-> FALSE, status |-> Null, shipment_status |-> Null,
     tracking_number |-> Null, tracking_url |-> Null,
     tracking_numbers |-> NoArray, tracking_urls |-> NoArray,
     created_at |-> NoTime, updated_at |-> NoTime]

\* A null entry of a fulfillments array.
NullFulfillment == [NoFulfillment EXCEPT !.isNull = TRUE]

\* An order with every field absent.
NoOrder ==
    [isNull |-> FALSE, id |-> 0, created_at |-> NoTime,
     cancelled_at |-> Null, cancel_reason |-> Null,
     financial_status |-> Null, total_price |-> Null, total_refunds |-> Null,
     fulfillment_status |-> Null, fulfillments |-> NoArray,
     tags |-> NoText, note |-> NoText, tracking_numbers |-> NoArray,
     processed_at |-> NoTime, customer_id |-> 0]

\* A null entry of an orders array.
NullOrder == [NoOrder EXCEPT !.isNull = TRUE]

-----------------------------------------------------------------------------
(* isOrderDelivered, shopify-proxy.js:101-138 *)

deliveredTags ==
    { <<"e","n","t","r","e","g","u","e">>,
      <<"d","e","l","i","v","e","r","e","d">>,
      <<"f","i","n","a","l","i","z","a","d","o">>,
      <<"c","o","n","c","l","u","i","d","o">>,
      <<"c","o","m","p","l","e","t","o">> }

deliveredNotes ==
    { <<"e","n","t","r","e","g","u","e">>,
      <<"d","e","l","i","v","e","r","e","d">> }

DeliveredAfterDays == 60

\* f => f.shipment_status === 'delivered' || f.status === 'delivered'
isDeliveredFulfillment(f) ==
    f.shipment_status = "delivered" \/ f.status = "delivered"

\* order.fulfillments.some(...) reads a property of each entry in turn, up to
\* the first delivered one: a null entry met before that throws a TypeError.
someDelivered(fs) ==
    LET nulls == {i \in DOMAIN fs : fs[i].isNull}
        hits  == {i \in DOMAIN fs : ~fs[i].isNull /\ isDeliveredFulfillment(fs[i])}
    IN  IF \E i \in hits : \A j \in nulls : i < j THEN Returns(TRUE)
        ELSE IF nulls # {} THEN Throws
        ELSE Returns(FALSE)

\* Signal 4: fulfilled and more than 60 whole days old.  An absent created_at
\* gives an invalid date, and NaN > 60 is false.
presumedDelivered(o) ==
    /\ o.fulfillment_status = "fulfilled"
    /\ o.created_at # NoTime
    /\ daysPassedOf(o.created_at) > DeliveredAfterDays

isOrderDelivered(o) ==
    LET byFulfillment ==
            IF o.fulfillments.kind = "arr" /\ Len(o.fulfillments.items) > 0
            THEN someDelivered(o.fulfillments.items)
            ELSE Returns(FALSE)
    IN  IF o.isNull THEN Throws
        ELSE IF byFulfillment.threw THEN Throws
        ELSE IF byFulfillment.value THEN Returns(TRUE)
        ELSE IF TruthyText(o.tags) /\ o.tags.kind # "str" THEN Throws
        ELSE IF /\ TruthyText(o.tags)
                /\ \E tag \in deliveredTags : includes(toLowerCase(o.tags.text), tag)
             THEN Returns(TRUE)
        ELSE IF TruthyText(o.note) /\ o.note.kind # "str" THEN Throws
        ELSE IF /\ TruthyText(o.note)
                /\ \E w \in deliveredNotes : includes(toLowerCase(o.note.text), w)
             THEN Returns(TRUE)
        ELSE Returns(presumedDelivered(o))

-----------------------------------------------------------------------------
(* isValidOrder, shopify-proxy.js:141-177 *)

\* parseFloat on the decimal strings the samples use, in cents.
parseFloat(s) ==
    CASE s = "0.00"   -> 0
      [] s = "50.00"  -> 5000
      [] s = "99.99"  -> 9999
      [] s = "100"    -> 10000
      [] s = "100.00" -> 10000
      [] s = "150.00" -> 15000

\* parseFloat(x || 0)
parseAmount(x) == IF Truthy(x) THEN parseFloat(x) ELSE 0

\* Only refunded orders removed.
refundedOnly == {"refunded"}

invalidFinancialStatus == {"refunded", "voided"}

PendingMaxDays == 7

\* refundedAmount > totalPrice
overRefunded(o) ==
    parseAmount(o.total_refunds) > parseAmount(o.total_price)

\* refundedAmount >= totalPrice
fullyRefunded(o) ==
    parseAmount(o.total_refunds) >= parseAmount(o.total_price)

isValidOrder(o) ==
    IF o.isNull \/ o.id = 0 \/ o.created_at = NoTime THEN FALSE
    ELSE IF Truthy(o.cancelled_at) \/ Truthy(o.cancel_reason) THEN FALSE
    ELSE IF o.financial_status \in invalidFinancialStatus THEN FALSE
    ELSE IF o.financial_status = "partially_refunded" /\ fullyRefunded(o) THEN FALSE
    ELSE IF /\ o.financial_status = "pending"
            /\ daysPassedOf(o.created_at) > PendingMaxDays
         THEN FALSE
    ELSE TRUE

-----------------------------------------------------------------------------
(* calculateUrgencyLevel, shopify-proxy.js:180-194 *)

calculateUrgencyLevel(daysPassed, hasTracking) ==
    IF ~hasTracking
    THEN IF daysPassed > 7 THEN "critical"
         ELSE IF daysPassed > 5 THEN "high"
         ELSE IF daysPassed > 3 THEN "medium"
         ELSE "normal"
    ELSE IF daysPassed > 21 THEN "critical"
         ELSE IF daysPassed > 16 THEN "high"
         ELSE IF daysPassed > 13 THEN "medium"
         ELSE "normal"


-----------------------------------------------------------------------------
(* Tracking numbers of one order *)

InSeq(x, s) == \E i \in DOMAIN s : s[i] = x

\* The fulfillments array holds a null entry: reading a property of it throws
\* a TypeError.
hasNullEntry(o) ==
    /\ o.fulfillments.kind = "arr"
    /\ \E i \in DOMAIN o.fulfillments.items : o.fulfillments.items[i].isNull

\* tns.forEach(tn => { if (tn) push }), without the Set
RECURSIVE pushTrackingNumbers(_, _)
pushTrackingNumbers(acc, tns) ==
    IF tns = <<>> THEN acc
    ELSE pushTrackingNumbers(
             IF Truthy(Head(tns)) THEN Append(acc, Head(tns)) ELSE acc,
             Tail(tns))

\* tns.forEach(tn => { if (tn && !trackingSet.has(tn)) { add; push } })
RECURSIVE addTrackingNumbers(_, _)
addTrackingNumbers(acc, tns) ==
    IF tns = <<>> THEN acc
    ELSE LET tn == Head(tns)
         IN  addTrackingNumbers(
                 IF Truthy(tn) /\ ~InSeq(tn, acc) THEN Append(acc, tn) ELSE acc,
                 Tail(tns))

\* One fulfillment of the list enrichment, shopify-proxy.js:346-361.
addFulfillmentTracking(acc, f) ==
    LET single == addTrackingNumbers(acc, <<f.tracking_number>>)
    IN  IF f.tracking_numbers.kind = "arr"
        THEN addTrackingNumbers(single, f.tracking_numbers.items)
        ELSE single

RECURSIVE addFulfillments(_, _)
addFulfillments(acc, fs) ==
    IF fs = <<>> THEN acc
    ELSE addFulfillments(addFulfillmentTracking(acc, Head(fs)), Tail(fs))

\* trackingNumbers of the list enrichment, shopify-proxy.js:330-362.  Reading
\* f.tracking_number of a null entry throws.
trackingNumbersOf(o) ==
    LET direct == IF o.tracking_numbers.kind = "arr"
                  THEN addTrackingNumbers(<<>>, o.tracking_numbers.items)
                  ELSE <<>>
    IN  IF o.fulfillments.kind # "arr" THEN Returns(direct)
        ELSE IF hasNullEntry(o) THEN [threw |-> TRUE, value |-> <<>>]
        ELSE Returns(addFulfillments(direct, o.fulfillments.items))

\* Detail handler of order-details.js:259-789, one fulfillment of the tracking
\* step (lines 408-445): st is [set, data], the trackingSet in insertion order
\* and the trackingData built so far.
RECURSIVE addDetailNumbers(_, _, _, _)
addDetailNumbers(st, tns, urls, idx) ==
    \* st is [set, numbers, urls]; idx counts from 0 as forEach's index does
    IF idx >= Len(tns) THEN st
    ELSE LET tn  == tns[idx + 1]
             new == Truthy(tn) /\ ~InSeq(tn, st.set)
             url == IF urls.kind = "arr" /\ idx < Len(urls.items)
                    THEN urls.items[idx + 1] ELSE Null
         IN  addDetailNumbers(
                 IF new
                 THEN [set     |-> Append(st.set, tn),
                       numbers |-> Append(st.numbers, tn),
                       urls    |-> IF Truthy(url) THEN Append(st.urls, url)
                                   ELSE st.urls]
                 ELSE st,
                 tns, urls, idx + 1)

detailFulfillment(st, f) ==
    LET newSingle == Truthy(f.tracking_number) /\ ~InSeq(f.tracking_number, st.set)
        s1 == IF newSingle
              THEN [set     |-> Append(st.set, f.tracking_number),
                    numbers |-> <<f.tracking_number>>,
                    urls    |-> IF Truthy(f.tracking_url) THEN <<f.tracking_url>>
                                ELSE <<>>]
              ELSE [set |-> st.set, numbers |-> <<>>, urls |-> <<>>]
        s2 == IF f.tracking_numbers.kind = "arr"
              THEN addDetailNumbers(s1, f.tracking_numbers.items, f.tracking_urls, 0)
              ELSE s1
        fulfillmentData == [tracking_numbers |-> s2.numbers,
                            tracking_urls    |-> s2.urls]
    IN  [set  |-> s2.set,
         data |-> IF Len(s2.numbers) > 0 THEN Append(st.data, fulfillmentData)
                  ELSE st.data]

RECURSIVE detailFulfillments(_, _)
detailFulfillments(st, fs) ==
    IF fs = <<>> THEN st
    ELSE detailFulfillments(detailFulfillment(st, Head(fs)), Tail(fs))

\* order-details.js:403-446, 509, 707-708: tracking_info (trackingData),
\* tracking_numbers (Array.from(trackingSet)) and has_tracking.  Reading
\* fulfillment.id of a null entry throws.
detailTracking(o) ==
    LET st == IF o.fulfillments.kind = "arr"
              THEN detailFulfillments([set |-> <<>>, data |-> <<>>],
                                      o.fulfillments.items)
              ELSE [set |-> <<>>, data |-> <<>>]
    IN  [threw            |-> hasNullEntry(o),
         tracking_info    |-> st.data,
         tracking_numbers |-> st.set,
         has_tracking     |-> Len(st.data) > 0]

\* Detail handler of order-details.js:796-1017, lines 888-913: the numbers of
\* the trackingNumbers entries.  The single tracking_number is pushed without
\* a look-up; the entries of tracking_numbers are pushed unless found.
RECURSIVE pushUnlessFound(_, _)
pushUnlessFound(acc, tns) ==
    IF tns = <<>> THEN acc
    ELSE pushUnlessFound(
             IF ~InSeq(Head(tns), acc) THEN Append(acc, Head(tns)) ELSE acc,
             Tail(tns))

legacyFulfillment(acc, f) ==
    LET single == IF Truthy(f.tracking_number)
                  THEN Append(acc, f.tracking_number) ELSE acc
    IN  IF f.tracking_numbers.kind = "arr" /\ Len(f.tracking_numbers.items) > 0
        THEN pushUnlessFound(single, f.tracking_numbers.items)
        ELSE single

RECURSIVE legacyFulfillments(_, _)
legacyFulfillments(acc, fs) ==
    IF fs = <<>> THEN acc
    ELSE legacyFulfillments(legacyFulfillment(acc, Head(fs)), Tail(fs))

legacyTrackingNumbers(o) ==
    [threw |-> hasNullEntry(o),
     value |-> IF o.fulfillments.kind = "arr" /\ Len(o.fulfillments.items) > 0
               THEN legacyFulfillments(<<>>, o.fulfillments.items)
               ELSE <<>>]


-----------------------------------------------------------------------------
(* Deadline analysis and timeline of the detail handler,
   order-details.js:482-590 *)

\* a || b on two dates
OrElse(a, b) == IF a # NoTime THEN a ELSE b

\* The fulfillment order.fulfillments.find stops at, order-details.js:491-493:
\* 0 when there is none.  The callback reads the fields of every entry up to
\* that one.
deliveredFulfillment(fs) ==
    LET hits == {i \in DOMAIN fs : ~fs[i].isNull /\ isDeliveredFulfillment(fs[i])}
    IN  IF hits = {} THEN 0 ELSE CHOOSE i \in hits : \A j \in hits : i <= j

\* find reads a field of a null entry before it reaches a delivered one.
findThrows(fs) ==
    \E i \in DOMAIN fs :
        /\ fs[i].isNull
        /\ deliveredFulfillment(fs) \in {0} \cup {j \in DOMAIN fs : j > i}

\* isDelivered, order-details.js:486-506
isDelivered(o) ==
    LET fs    == IF o.fulfillments.kind = "arr" THEN o.fulfillments.items ELSE <<>>
        found == deliveredFulfillment(fs) # 0
    IN  IF findThrows(fs) THEN Throws
        ELSE IF found THEN Returns(TRUE)
        ELSE IF TruthyText(o.tags) /\ o.tags.kind # "str" THEN Throws
        ELSE Returns(/\ TruthyText(o.tags)
                     /\ \/ includes(toLowerCase(o.tags.text),
                                    <<"e", "n", "t", "r", "e", "g", "u", "e">>)
                        \/ includes(toLowerCase(o.tags.text),
                                    <<"d", "e", "l", "i", "v", "e", "r", "e", "d">>))

\* The ladders consulted before isDelivered.
prazoByAgeFirst(daysPassed, delivered, hasTracking) ==
    IF ~hasTracking /\ daysPassed > 7
    THEN [prazo_status |-> "aguardando_urgente", urgency_level |-> "critical"]
    ELSE IF hasTracking /\ daysPassed > 21
    THEN [prazo_status |-> "critico", urgency_level |-> "critical"]
    ELSE IF delivered
    THEN [prazo_status |-> "concluido", urgency_level |-> "delivered"]
    ELSE [prazo_status |-> "no_prazo", urgency_level |-> "normal"]

\* prazoStatus and urgencyLevel, order-details.js:509-535
prazoAnalysis(daysPassed, delivered, hasTracking) ==
    IF delivered
    THEN [prazo_status |-> "concluido", urgency_level |-> "delivered"]
    ELSE IF ~hasTracking
    THEN IF daysPassed > 7
         THEN [prazo_status |-> "aguardando_urgente", urgency_level |-> "critical"]
         ELSE IF daysPassed > 3
         THEN [prazo_status |-> "aguardando", urgency_level |-> "medium"]
         ELSE [prazo_status |-> "no_prazo", urgency_level |-> "normal"]
    ELSE IF daysPassed > 21
         THEN [prazo_status |-> "critico", urgency_level |-> "critical"]
         ELSE IF daysPassed > 16
         THEN [prazo_status |-> "atrasado", urgency_level |-> "high"]
         ELSE IF daysPassed > 13
         THEN [prazo_status |-> "alerta", urgency_level |-> "medium"]
         ELSE [prazo_status |-> "no_prazo", urgency_level |-> "normal"]

\* An event of the timeline: its type, its date, and the fulfillment it was
\* generated from (0 for the events of the order itself).
Event(type, date, from) == [type |-> type, date |-> date, from |-> from]

\* A delivered event only for a fulfillment that was shipped.
shippedFulfillmentEvents(f, i) ==
    IF f.status \in {"success", "fulfilled"}
    THEN <<[type |-> "order_shipped", date |-> f.created_at, from |-> i]>>
         \o (IF f.shipment_status = "delivered"
             THEN <<[type |-> "order_delivered",
                     date |-> IF f.updated_at # NoTime THEN f.updated_at
                              ELSE f.created_at,
                     from |-> i]>>
             ELSE <<>>)
    ELSE <<>>

\* The events one fulfillment adds, order-details.js:564-585.
fulfillmentEvents(f, i) ==
    (IF f.status \in {"success", "fulfilled"}
     THEN <<Event("order_shipped", f.created_at, i)>> ELSE <<>>)
    \o (IF f.shipment_status = "delivered"
        THEN <<Event("order_delivered", OrElse(f.updated_at, f.created_at), i)>>
        ELSE <<>>)

RECURSIVE allFulfillmentEvents(_, _)
allFulfillmentEvents(fs, i) ==
    IF i > Len(fs) THEN <<>>
    ELSE fulfillmentEvents(fs[i], i) \o allFulfillmentEvents(fs, i + 1)

\* The events in the order they are pushed, order-details.js:540-587.
timelineEvents(o) ==
    <<Event("order_created", o.created_at, 0)>>
    \o (IF o.financial_status = "paid"
        THEN <<Event("payment_confirmed", OrElse(o.processed_at, o.created_at), 0)>>
        ELSE <<>>)
    \o (IF o.fulfillments.kind = "arr"
        THEN allFulfillmentEvents(o.fulfillments.items, 1) ELSE <<>>)

\* new Date(a.date) - new Date(b.date), order-details.js:590
compareEvents(a, b) == a.date[1] - b.date[1]

\* An insertion that puts x before the events of its own date.
RECURSIVE insertEventBeforeEquals(_, _)
insertEventBeforeEquals(sorted, x) ==
    IF sorted = <<>> THEN <<x>>
    ELSE IF Head(sorted).date[1] - x.date[1] >= 0 THEN <<x>> \o sorted
    ELSE <<Head(sorted)>> \o insertEventBeforeEquals(Tail(sorted), x)

\* Array.prototype.sort is stable: x goes behind every event that does not
\* compare greater than it.
RECURSIVE insertEvent(_, _)
insertEvent(sorted, x) ==
    IF sorted = <<>> THEN <<x>>
    ELSE IF compareEvents(Head(sorted), x) > 0 THEN <<x>> \o sorted
    ELSE <<Head(sorted)>> \o insertEvent(Tail(sorted), x)

RECURSIVE sortTimeline(_)
sortTimeline(s) ==
    IF s = <<>> THEN <<>>
    ELSE insertEvent(sortTimeline(SubSeq(s, 1, Len(s) - 1)), s[Len(s)])

\* The fields of processedOrder the analysis fills, order-details.js:403-590
\* and 622-628, 734; threw when a step before the response throws.
processedOrder(o) ==
    LET tracking    == detailTracking(o)
        daysPassed  == daysPassedOf(o.created_at)
        delivered   == isDelivered(o)
        hasTracking == tracking.has_tracking
        prazo       == prazoAnalysis(daysPassed, delivered.value, hasTracking)
        noteThrows  == TruthyText(o.note) /\ o.note.kind # "str"
    IN  [threw            |-> tracking.threw \/ noteThrows \/ delivered.threw,
         days_since_order |-> daysPassed,
         prazo_status     |-> prazo.prazo_status,
         urgency_level    |-> prazo.urgency_level,
         is_delivered     |-> delivered.value,
         has_tracking     |-> hasTracking,
         timeline         |-> sortTimeline(timelineEvents(o))]

-----------------------------------------------------------------------------
(* Configuration of the list handler, shopify-proxy.js:64-68 *)

\* The token the handler falls back to when the environment has none.
FallbackToken == "shpat_fallback"

\* process.env.SHOPIFY_ACCESS_TOKEN || '<literal>'
SHOPIFY_TOKEN(e) ==
    IF Truthy(e.SHOPIFY_ACCESS_TOKEN) THEN e.SHOPIFY_ACCESS_TOKEN ELSE FallbackToken

\* parseInt on the settings drawn: <<n>> for the integer n, <<>> for NaN.
parseInt(s) ==
    CASE s = "-1" -> <<-1>>
      [] s = "0"  -> <<0>>
      [] s = "1"  -> <<1>>
      [] s = "2"  -> <<2>>
      [] s = "15" -> <<15>>
      [] OTHER    -> <<>>

\* parseInt(process.env.MAX_PAGES || '15')
MAX_PAGES(e) == parseInt(IF Truthy(e.MAX_PAGES) THEN e.MAX_PAGES ELSE "15")

\* pageCount >= MAX_PAGES; every comparison with NaN is false.
reachedMaxPages(count, maxPages) == maxPages # <<>> /\ count >= maxPages[1]

-----------------------------------------------------------------------------
(* The upstream listing endpoint *)

\* The records the upstream store holds; a page lists them by position here.
UpstreamOrders ==
    << \* 1: paid two days ago, nothing shipped
       [NoOrder EXCEPT !.id = 101, !.created_at = Aged(2, 5),
                       !.financial_status = "paid"],
       \* 2: paid 18 days ago, one number on two fulfillments
       [NoOrder EXCEPT !.id = 102, !.created_at = Aged(18, 0),
                       !.financial_status = "paid",
                       !.fulfillment_status = "fulfilled",
                       !.fulfillments = Arr(<<
                           [NoFulfillment EXCEPT !.status = "success",
                                                 !.tracking_number = "A1"],
                           [NoFulfillment EXCEPT !.status = "success",
                                                 !.tracking_numbers = Arr(<<"A1", "B2">>)]
                       >>)],
       \* 3: delivered
       [NoOrder EXCEPT !.id = 103, !.created_at = Aged(30, 1),
                       !.financial_status = "paid",
                       !.fulfillments = Arr(<<
                           [NoFulfillment EXCEPT !.status = "success",
                                                 !.shipment_status = "delivered",
                                                 !.tracking_number = "C3"] >>)],
       \* 4: cancelled
       [NoOrder EXCEPT !.id = 104, !.created_at = Aged(4, 0),
                       !.financial_status = "paid",
                       !.cancelled_at = "2025-01-10T10:00:00-03:00"],
       \* 5: tags that are not a string
       [NoOrder EXCEPT !.id = 105, !.created_at = Aged(1, 0),
                       !.financial_status = "paid", !.tags = NotAString],
       \* 6: authorized nine days ago, nothing shipped
       [NoOrder EXCEPT !.id = 106, !.created_at = Aged(9, 23),
                       !.financial_status = "authorized"],
       \* 7: paid three days ago, nothing shipped
       [NoOrder EXCEPT !.id = 107, !.created_at = Aged(3, 2),
                       !.financial_status = "paid"] >>

\* data.orders of the sample bodies: positions in UpstreamOrders.
PageSamples ==
    { NoArray, Arr(<<>>), Arr(<<1>>), Arr(<<2, 3>>), Arr(<<4, 6, 7>>), Arr(<<5>>) }

\* A link of the Link header: its rel, and the page_info parameter of its URL
\* (Null when the URL has none).
Link(rel, pageInfo) == [rel |-> rel, page_info |-> pageInfo]

\* response.headers.get('Link'): <<>> when the header is absent.
LinkSamples ==
    { <<>>,
      <<Link("next", "c1")>>,
      <<Link("previous", "c0"), Link("next", "c2")>>,
      <<Link("previous", "c1")>>,
      <<Link("next", "")>> }

HttpErrorStatuses == {429, 500}

\* What one listing request can come back with.
UpstreamResponses ==
    [kind : {"ok"}, status : {200}, link : LinkSamples, json : {TRUE},
     orders : PageSamples]
    \cup [kind : {"ok"}, status : {200}, link : {<<>>}, json : {FALSE},
          orders : {NoArray}]
    \cup [kind : {"http_error"}, status : HttpErrorStatuses, link : {<<>>},
          json : {TRUE}, orders : {NoArray}]
    \cup [kind : {"network_error"}, status : {0}, link : {<<>>}, json : {FALSE},
          orders : {NoArray}]

\* linkHeader.match(/<[^>]*page_info=([^>&]*)[^>]*>; rel="next"/): the leftmost
\* link with rel="next" whose URL has a page_info parameter; an empty capture
\* leaves nextPageInfo null.  shopify-proxy.js:233-241
extractNextPageInfo(linkHeader) ==
    LET hits == {i \in DOMAIN linkHeader :
                    linkHeader[i].rel = "next" /\ linkHeader[i].page_info # Null}
    IN  IF hits = {} THEN Null
        ELSE LET first == CHOOSE i \in hits : \A j \in hits : i <= j
             IN  IF Truthy(linkHeader[first].page_info)
                 THEN linkHeader[first].page_info ELSE Null

\* `Shopify API erro: ${response.status}`
httpErrorMessage(status) ==
    CASE status = 429 -> "Shopify API erro: 429"
      [] status = 500 -> "Shopify API erro: 500"

\* allOrders = [...pageData.orders, ...allOrders]
prependPage(all, orders) == orders \o all

\* allOrders = [...allOrders, ...pageData.orders], shopify-proxy.js:282
appendPage(all, orders) == all \o orders

\* The request fetchOrdersPage(pageInfo) issues, shopify-proxy.js:203-224.
listingRequest(pageInfo, token) ==
    [page_info      |-> IF Truthy(pageInfo) THEN pageInfo ELSE Null,
     created_at_min |-> ~Truthy(pageInfo),
     token          |-> token]

\* fetchOrdersPage without the response.ok check of lines 226-230: the body
\* of an error response has no orders and the response no Link header.
fetchOrdersPageUnchecked(r) ==
    IF r.kind = "network_error"
    THEN [threw |-> TRUE, message |-> "fetch failed",
          orders |-> <<>>, nextPageInfo |-> Null]
    ELSE IF r.kind = "ok" /\ ~r.json
    THEN [threw |-> TRUE, message |-> "Unexpected token < in JSON",
          orders |-> <<>>, nextPageInfo |-> Null]
    ELSE [threw |-> FALSE, message |-> "",
          orders |-> IF r.kind = "ok" /\ r.orders.kind = "arr"
                     THEN r.orders.items ELSE <<>>,
          nextPageInfo |-> extractNextPageInfo(r.link)]

\* fetchOrdersPage on the response r, shopify-proxy.js:226-253: what it
\* returns, or the message of what it throws.
fetchOrdersPage(r) ==
    IF r.kind = "network_error"
    THEN [threw |-> TRUE, message |-> "fetch failed",
          orders |-> <<>>, nextPageInfo |-> Null]
    ELSE IF r.kind = "http_error"
    THEN [threw |-> TRUE, message |-> httpErrorMessage(r.status),
          orders |-> <<>>, nextPageInfo |-> Null]
    ELSE IF ~r.json
    THEN [threw |-> TRUE, message |-> "Unexpected token < in JSON",
          orders |-> <<>>, nextPageInfo |-> Null]
    ELSE [threw |-> FALSE, message |-> "",
          orders |-> IF r.orders.kind = "arr" THEN r.orders.items ELSE <<>>,
          nextPageInfo |-> extractNextPageInfo(r.link)]


-----------------------------------------------------------------------------
(* Filtering, enrichment, ordering and statistics, shopify-proxy.js:304-454 *)

\* A field the body does not carry.
Absent == 0 - 1

\* The split with the push of line 312 left out: a delivered order lands in
\* neither list.
splitWithoutDelivered(o) ==
    IF ~isValidOrder(o) THEN "invalid"
    ELSE IF isOrderDelivered(o).threw THEN "throws"
    ELSE IF isOrderDelivered(o).value THEN "dropped"
    ELSE "active"

\* Where the filter of line 304 and the split of lines 311-317 put a record:
\* dropped as invalid, pushed to deliveredOrders or to activeOrders, or the
\* call of isOrderDelivered throws.
splitOf(o) ==
    IF ~isValidOrder(o) THEN "invalid"
    ELSE IF isOrderDelivered(o).threw THEN "throws"
    ELSE IF isOrderDelivered(o).value THEN "delivered"
    ELSE "active"

\* prazoStatus, shopify-proxy.js:368-376
prazoStatusOf(daysPassed, hasTracking) ==
    IF ~hasTracking
    THEN IF daysPassed > 7 THEN "aguardando_urgente" ELSE "aguardando"
    ELSE IF daysPassed > 20 THEN "critico"
         ELSE IF daysPassed > 15 THEN "atrasado"
         ELSE IF daysPassed > 12 THEN "alerta"
         ELSE "no_prazo"

\* daysPassed >= (hasTracking ? 15 : 7)
isLateFrom(daysPassed, hasTracking) ==
    daysPassed >= (IF hasTracking THEN 15 ELSE 7)

\* daysPassed > (hasTracking ? 15 : 7)
isLateOf(daysPassed, hasTracking) ==
    daysPassed > (IF hasTracking THEN 15 ELSE 7)

\* The callback of activeOrders.map, shopify-proxy.js:326-404, on the record o
\* that came from position i of UpstreamOrders.
enrichFields(o, i) ==
    LET daysPassed   == daysPassedOf(o.created_at)
        tracking     == trackingNumbersOf(o)
        hasTracking  == Len(tracking.value) > 0
        urgencyLevel == calculateUrgencyLevel(daysPassed, hasTracking)
        prazoStatus  == prazoStatusOf(daysPassed, hasTracking)
    IN  [threw |-> tracking.threw,
         value |->
            [source               |-> i,
             id                   |-> o.id,
             days_since_order     |-> daysPassed,
             urgency_level        |-> urgencyLevel,
             prazo_status         |-> prazoStatus,
             has_tracking         |-> hasTracking,
             all_tracking_numbers |-> tracking.value,
             is_late              |-> isLateOf(daysPassed, hasTracking),
             analysis             |->
                [daysPassed  |-> daysPassed,
                 status      |-> CASE urgencyLevel = "critical" -> "critical"
                                   [] urgencyLevel = "high"     -> "late"
                                   [] urgencyLevel = "medium"   -> "warning"
                                   [] OTHER                     -> "normal",
                 prazoStatus |-> prazoStatus,
                 priority    |-> CASE urgencyLevel = "critical" -> 10
                                   [] urgencyLevel = "high"     -> 8
                                   [] urgencyLevel = "medium"   -> 5
                                   [] OTHER                     -> 2,
                 isLate      |-> isLateOf(daysPassed, hasTracking),
                 isDelivered |-> FALSE,
                 hasTracking |-> hasTracking]]]

\* The enrichment of each upstream record, by position.
UpstreamEnriched ==
    [i \in DOMAIN UpstreamOrders |-> enrichFields(UpstreamOrders[i], i)]

\* The callback of activeOrders.map on the record at position i.
enrichOrder(i) == UpstreamEnriched[i]

\* The split of each upstream record.
UpstreamSplit == [i \in DOMAIN UpstreamOrders |-> splitOf(UpstreamOrders[i])]

urgencyOrder(level) ==
    CASE level = "critical" -> 4
      [] level = "high"     -> 3
      [] level = "medium"   -> 2
      [] level = "normal"   -> 1

\* The comparator without its second key: urgency alone.
compareByUrgency(a, b) ==
    urgencyOrder(b.urgency_level) - urgencyOrder(a.urgency_level)

\* The comparator of enrichedOrders.sort, shopify-proxy.js:407-415.
compareOrders(a, b) ==
    LET urgencyDiff == urgencyOrder(b.urgency_level) - urgencyOrder(a.urgency_level)
    IN  IF urgencyDiff # 0 THEN urgencyDiff
        ELSE b.days_since_order - a.days_since_order

\* Array.prototype.sort is stable: x goes before the first element that the
\* comparator puts after it.
RECURSIVE insertSorted(_, _)
insertSorted(sorted, x) ==
    IF sorted = <<>> THEN <<x>>
    ELSE IF compareOrders(Head(sorted), x) > 0 THEN <<x>> \o sorted
    ELSE <<Head(sorted)>> \o insertSorted(Tail(sorted), x)

RECURSIVE sortOrders(_)
sortOrders(s) ==
    IF s = <<>> THEN <<>>
    ELSE insertSorted(sortOrders(SubSeq(s, 1, Len(s) - 1)), s[Len(s)])

\* (num / den).toFixed(1) cut after the first decimal instead of rounded.
truncated(num, den) == (10 * num) \div den

\* (num / den).toFixed(1) in tenths: the decimal with one digit nearest to the
\* quotient, the larger one on a tie.  Below 16 in den no percentage falls on
\* a tie and the floating-point quotient rounds like the exact one.
toFixed(num, den) == (20 * num + den) \div (2 * den)

\* activeOrders.length > 0 ? ((count / activeOrders.length) * 100).toFixed(1) : 0,
\* shopify-proxy.js:450-453, in tenths of a percent.
percentageOf(count, active) ==
    IF active > 0 THEN toFixed(count * 100, active) ELSE 0

\* stats, shopify-proxy.js:421-454
statsOf(all, valid, delivered, active, enriched) ==
    [total_fetched      |-> Len(all),
     total_invalid      |-> Len(all) - Len(valid),
     valid_orders       |-> Len(valid),
     delivered_filtered |-> Len(delivered),
     active_orders      |-> Len(active),
     critical_orders    |-> Cardinality({i \in DOMAIN enriched : enriched[i].urgency_level = "critical"}),
     high_priority      |-> Cardinality({i \in DOMAIN enriched : enriched[i].urgency_level = "high"}),
     medium_priority    |-> Cardinality({i \in DOMAIN enriched : enriched[i].urgency_level = "medium"}),
     normal_priority    |-> Cardinality({i \in DOMAIN enriched : enriched[i].urgency_level = "normal"}),
     without_tracking   |-> Cardinality({i \in DOMAIN enriched : ~enriched[i].has_tracking}),
     with_tracking      |-> Cardinality({i \in DOMAIN enriched : enriched[i].has_tracking}),
     late_orders        |-> Cardinality({i \in DOMAIN enriched : enriched[i].is_late}),
     on_time_orders     |-> Cardinality({i \in DOMAIN enriched : ~enriched[i].is_late}),
     last_7_days        |-> Cardinality({i \in DOMAIN enriched : enriched[i].days_since_order <= 7}),
     last_15_days       |-> Cardinality({i \in DOMAIN enriched : enriched[i].days_since_order <= 15}),
     last_30_days       |-> Cardinality({i \in DOMAIN enriched : enriched[i].days_since_order <= 30}),
     over_30_days       |-> Cardinality({i \in DOMAIN enriched : enriched[i].days_since_order > 30}),
     late_percentage    |->
        percentageOf(Cardinality({i \in DOMAIN enriched : enriched[i].is_late}),
                     Len(active)),
     tracking_percentage |->
        percentageOf(Cardinality({i \in DOMAIN enriched : enriched[i].has_tracking}),
                     Len(active))]

\* The stats of the error body, shopify-proxy.js:489-495.
errorStats ==
    [total_fetched      |-> 0,      total_invalid    |-> Absent,
     valid_orders       |-> 0,      delivered_filtered |-> 0,
     active_orders      |-> 0,      critical_orders  |-> 0,
     high_priority      |-> Absent, medium_priority  |-> Absent,
     normal_priority    |-> Absent, without_tracking |-> Absent,
     with_tracking      |-> Absent, late_orders      |-> Absent,
     on_time_orders     |-> Absent, last_7_days      |-> Absent,
     last_15_days       |-> Absent, last_30_days     |-> Absent,
     over_30_days       |-> Absent, late_percentage  |-> Absent,
     tracking_percentage |-> Absent]

\* The stats of the body sent when no token is configured name other fields
\* (total, filtered, delivered, active): none of the list statistics.
noStats == [f \in DOMAIN errorStats |-> Absent]

\* res.status(200).end()
optionsResponse ==
    [status |-> 200, body |-> "none", success |-> FALSE, error |-> "",
     orders |-> <<>>, stats |-> noStats, pages_processed |-> Absent]

\* shopify-proxy.js:83-93
tokenErrorResponse ==
    [status |-> 500, body |-> "json", success |-> FALSE,
     error |-> "Token nao configurado no servidor",
     orders |-> <<>>, stats |-> noStats, pages_processed |-> Absent]

\* The catch of the handler, shopify-proxy.js:480-501.
errorResponse(message) ==
    [status |-> 500, body |-> "json", success |-> FALSE, error |-> message,
     orders |-> <<>>, stats |-> errorStats, pages_processed |-> Absent]

\* shopify-proxy.js:304-478 on the orders fetched (positions in UpstreamOrders)
\* and the page count: the body sent, from the try or from the catch.
listResponse(all, pages) ==
    LET valid     == SelectSeq(all, LAMBDA i : UpstreamSplit[i] # "invalid")
        throwing  == {k \in DOMAIN valid : UpstreamSplit[valid[k]] = "throws"}
        delivered == SelectSeq(valid, LAMBDA i : UpstreamSplit[i] = "delivered")
        active    == SelectSeq(valid, LAMBDA i : UpstreamSplit[i] = "active")
        mapped    == [k \in DOMAIN active |-> enrichOrder(active[k])]
        enriched  == sortOrders([k \in DOMAIN active |-> mapped[k].value])
    IN  IF throwing # {} \/ \E k \in DOMAIN mapped : mapped[k].threw
        THEN errorResponse("TypeError")
        ELSE [status |-> 200, body |-> "json", success |-> TRUE, error |-> "",
              orders |-> enriched,
              stats |-> statsOf(all, valid, delivered, active, enriched),
              pages_processed |-> pages]


-----------------------------------------------------------------------------
(* The list handler, shopify-proxy.js:46-503 *)

\* The page counter is exact up to MaxRequests and then stays at
\* MaxRequests + 1, "more than MaxRequests"; past that point requests,
\* responses and records are no longer recorded.  Every ceiling drawn that is a
\* number lies below MaxRequests, so each comparison with it stays exact.
MaxRequests == 3

\* process.env.MAX_PAGES of the invocations drawn.
MaxPagesSettings == {"-1", "0", "1", "2", "abc"}

TokenSettings == {Null, "shpat_env"}

Methods == {"OPTIONS", "GET", "POST"}

Exact(count) == count <= MaxRequests

Record(log, x, count) == IF Exact(count) THEN Append(log, x) ELSE log

\* No helper is applied while the list handler runs.
NoResult ==
    [applied |-> "none", valid |-> FALSE,
     delivered |-> Returns(FALSE),
     tracking |-> Returns(<<>>),
     detail |-> [threw |-> FALSE, tracking_info |-> <<>>,
                 tracking_numbers |-> <<>>, has_tracking |-> FALSE],
     legacy |-> Returns(<<>>),
     split |-> "none",
     enriched |-> enrichFields([NoOrder EXCEPT !.created_at = At(Now)], 0),
     processed |-> processedOrder([NoOrder EXCEPT !.created_at = At(Now)])]

InitList ==
    /\ calls = <<>>
    /\ scopes = <<>>
    /\ variant = 0
    /\ query = NoText
    /\ env \in [SHOPIFY_ACCESS_TOKEN : TokenSettings, MAX_PAGES : MaxPagesSettings]
    /\ method \in Methods
    /\ pc = "start"
    /\ pageCount = 0
    /\ allOrders = <<>>
    /\ currentPageInfo = Null
    /\ sent = <<>>
    /\ received = <<>>
    /\ res = <<>>
    /\ order = NoOrder
    /\ result = NoResult

\* shopify-proxy.js:57-59
Options ==
    /\ variant = 0
    /\ pc = "start"
    /\ method = "OPTIONS"
    /\ res' = Append(res, optionsResponse)
    /\ pc' = "done"
    /\ UNCHANGED <<calls, scopes, variant, query, env, method, pageCount, allOrders, currentPageInfo,
                   sent, received, order, result>>

\* shopify-proxy.js:64-94 and 260-272: the configuration, the token check and
\* the first pass of the loop up to its await.
Begin ==
    /\ variant = 0
    /\ pc = "start"
    /\ method # "OPTIONS"
    /\ IF ~Truthy(SHOPIFY_TOKEN(env))
       THEN /\ res' = Append(res, tokenErrorResponse)
            /\ pc' = "done"
            /\ UNCHANGED <<pageCount, allOrders, currentPageInfo, sent>>
       ELSE /\ allOrders' = <<>>
            /\ currentPageInfo' = Null
            /\ pageCount' = 1
            /\ sent' = Append(sent, listingRequest(Null, SHOPIFY_TOKEN(env)))
            /\ pc' = "awaitPage"
            /\ UNCHANGED res
    /\ UNCHANGED <<calls, scopes, variant, query, env, method, received, order, result>>

\* fetchOrdersPage throws (the request fails, the status is not 2xx, the body
\* does not parse): the catch of line 480 answers.
PageFails ==
    /\ pc = "awaitPage"
    /\ \E r \in UpstreamResponses :
          LET page == fetchOrdersPage(r)
          IN  /\ page.threw
              /\ received' = Record(received, r, pageCount)
              /\ res' = Append(res, errorResponse(page.message))
    /\ pc' = "done"
    /\ UNCHANGED <<calls, scopes, variant, query, env, method, pageCount, allOrders, currentPageInfo, sent,
                   order, result>>

\* The loop ends at this page (lines 274-277, 288-291, or the while of 293) and
\* the handler filters, enriches and answers (lines 304-478).
PageEndsLoop ==
    /\ pc = "awaitPage"
    /\ \E r \in UpstreamResponses :
          LET page == fetchOrdersPage(r)
              all  == IF Exact(pageCount) THEN appendPage(allOrders, page.orders)
                      ELSE allOrders
          IN  /\ ~page.threw
              /\ \/ /\ Len(page.orders) = 0
                    /\ UNCHANGED <<allOrders, currentPageInfo>>
                    /\ res' = Append(res, listResponse(allOrders, pageCount))
                 \/ /\ Len(page.orders) > 0
                    /\ \/ reachedMaxPages(pageCount, MAX_PAGES(env))
                       \/ ~Truthy(page.nextPageInfo)
                    /\ allOrders' = all
                    /\ currentPageInfo' = page.nextPageInfo
                    /\ res' = Append(res, listResponse(all, pageCount))
              /\ received' = Record(received, r, pageCount)
    /\ pc' = "done"
    /\ UNCHANGED <<calls, scopes, variant, query, env, method, pageCount, sent, order, result>>

\* The loop goes round (line 293) and requests the next page.
PageContinues ==
    /\ pc = "awaitPage"
    /\ \E r \in UpstreamResponses :
          LET page == fetchOrdersPage(r)
          IN  /\ ~page.threw
              /\ Len(page.orders) > 0
              /\ ~reachedMaxPages(pageCount, MAX_PAGES(env))
              /\ Truthy(page.nextPageInfo)
              /\ allOrders' = IF Exact(pageCount)
                              THEN appendPage(allOrders, page.orders)
                              ELSE allOrders
              /\ currentPageInfo' = page.nextPageInfo
              /\ received' = Record(received, r, pageCount)
              /\ pageCount' = IF Exact(pageCount) THEN pageCount + 1 ELSE pageCount
              /\ sent' = Record(sent,
                                listingRequest(page.nextPageInfo, SHOPIFY_TOKEN(env)),
                                pageCount + 1)
    /\ UNCHANGED <<calls, scopes, variant, query, env, method, pc, res, order, result>>

Next == Options \/ Begin \/ PageFails \/ PageEndsLoop \/ PageContinues

Spec == InitList /\ [][Next]_vars

\* Every upstream call is answered in the end, by a response or by an error.
FairSpec == Spec /\ WF_vars(Next)


-----------------------------------------------------------------------------
(* The helpers applied to one record *)

\* The longest fulfillments array drawn for the tracking inputs.
MaxFulfillments == 2

SeqsUpTo(S, n) == UNION {[1..k -> S] : k \in 0..n}

TagSamples ==
    { NoText, NotAString,
      Str(<<>>),
      Str(<<"v", "i", "p">>),
      Str(<<"E", "n", "t", "r", "e", "g", "u", "e">>),
      Str(<<"D", "E", "L", "I", "V", "E", "R", "E", "D">>),
      Str(<<"u", "n", "d", "e", "l", "i", "v", "e", "r", "e", "d">>),
      Str(<<"F", "i", "n", "a", "l", "i", "z", "a", "d", "o">>),
      Str(<<"c", "o", "n", "c", "l", "u", "i", "d", "o">>),
      Str(<<"C", "O", "M", "P", "L", "E", "T", "O">>),
      Str(<<"e", "n", "t", "r", "e", "g", "a">>) }

NoteSamples ==
    { NoText, NotAString,
      Str(<<>>),
      Str(<<"p", "o", "r", "t", "a", "r", "i", "a">>),
      Str(<<"o", "k", " ", "E", "n", "t", "r", "e", "g", "u", "e">>),
      Str(<<"D", "e", "l", "i", "v", "e", "r", "e", "d">>),
      Str(<<"f", "i", "n", "a", "l", "i", "z", "a", "d", "o">>) }

Shipped == [NoFulfillment EXCEPT !.status = "success"]
ShipmentDelivered == [NoFulfillment EXCEPT !.status = "success",
                                          !.shipment_status = "delivered"]
StatusDelivered == [NoFulfillment EXCEPT !.status = "delivered"]

DeliveryFulfillmentSamples ==
    { NoArray, Arr(<<>>), Arr(<<Shipped>>), Arr(<<ShipmentDelivered>>),
      Arr(<<StatusDelivered>>), Arr(<<Shipped, ShipmentDelivered>>),
      Arr(<<NullFulfillment>>), Arr(<<StatusDelivered, NullFulfillment>>),
      Arr(<<NullFulfillment, StatusDelivered>>) }

\* Ages around the 60-day rule: 25 days, 60 days, 60 days 23 hours, 61 and 65.
DeliveryAges ==
    { NoTime, Aged(25, 0), Aged(60, 0), Aged(60, 23), Aged(61, 0), Aged(65, 3) }

DeliveryInputs ==
    { [NoOrder EXCEPT !.id = 201, !.financial_status = "paid",
                      !.fulfillments = f, !.tags = t, !.note = n,
                      !.fulfillment_status = s, !.created_at = c] :
        f \in DeliveryFulfillmentSamples, t \in TagSamples, n \in NoteSamples,
        s \in {Null, "partial", "fulfilled"}, c \in DeliveryAges }

FinancialStatuses ==
    { Null, "paid", "authorized", "partially_paid", "partially_refunded",
      "pending", "refunded", "voided", "expired" }

AmountSamples == { Null, "50.00", "100", "100.00" }

\* Ages around the 7-day rule for pending orders.
ValidityAges == { NoTime, Aged(0, 1), Aged(7, 0), Aged(7, 23), Aged(8, 0) }

ValidityInputs ==
    { [NoOrder EXCEPT !.id = i, !.created_at = c, !.cancelled_at = ca,
                      !.cancel_reason = cr, !.financial_status = fs,
                      !.total_price = tp, !.total_refunds = tr] :
        i \in {0, 301}, c \in ValidityAges,
        ca \in {Null, "2025-01-10T10:00:00-03:00"}, cr \in {Null, "customer"},
        fs \in FinancialStatuses, tp \in AmountSamples, tr \in AmountSamples }
    \cup {NullOrder}

TrackingFulfillmentSamples ==
    { NoFulfillment,
      [NoFulfillment EXCEPT !.tracking_number = "A1"],
      [NoFulfillment EXCEPT !.tracking_numbers = Arr(<<"A1", "B2">>),
                            !.tracking_urls = Arr(<<"urlA1", "urlB2">>)],
      [NoFulfillment EXCEPT !.tracking_number = "A1", !.tracking_url = "urlA1",
                            !.tracking_numbers = Arr(<<"A1">>)],
      [NoFulfillment EXCEPT !.tracking_numbers = Arr(<<"", "B2">>),
                            !.tracking_urls = Arr(<<"url0">>)],
      [NoFulfillment EXCEPT !.tracking_numbers = Arr(<<"B2", "B2">>)],
      [NoFulfillment EXCEPT !.tracking_numbers = Arr(<<"A1", "B2">>),
                            !.tracking_urls = Arr(<<"", "urlB2">>)] }

TrackingInputs ==
    { [NoOrder EXCEPT !.id = 401, !.created_at = Aged(5, 0),
                      !.financial_status = "paid",
                      !.tracking_numbers = d, !.fulfillments = Arr(fs)] :
        d \in {NoArray, Arr(<<>>), Arr(<<"A1">>), Arr(<<"B2", "B2">>)},
        fs \in SeqsUpTo(TrackingFulfillmentSamples, MaxFulfillments) }

\* Ages around the steps of the two ladders, and a created_at five hours
\* ahead of the clock.
EnrichAges ==
    { At(Now + 5), Aged(0, 0), Aged(3, 23), Aged(4, 0), Aged(5, 23), Aged(6, 0),
      Aged(7, 23), Aged(8, 0), Aged(12, 23), Aged(13, 0), Aged(13, 23),
      Aged(15, 23), Aged(16, 0), Aged(16, 23), Aged(17, 0), Aged(20, 23),
      Aged(21, 0), Aged(21, 23), Aged(22, 0), Aged(40, 0) }

EnrichInputs ==
    { [NoOrder EXCEPT !.id = 501, !.created_at = c, !.financial_status = fs,
                      !.fulfillments = f] :
        c \in EnrichAges, fs \in {"paid", "authorized"},
        f \in { NoArray, Arr(<<Shipped>>),
                 Arr(<<[Shipped EXCEPT !.tracking_number = "A1"]>>),
                 Arr(<<[Shipped EXCEPT !.tracking_numbers = Arr(<<"A1", "B2">>)]>>) } }

\* created_at of the orders the timeline is built for: ten days ago.
OrderedAt == Now - 240

\* Fulfillments with their dates: shipped a day after the order; shipped and
\* delivered; shipped and delivered on the order's own date, never updated;
\* delivered but never shipped, dated an hour before the order; cancelled;
\* shipped three days after the order and in transit.
DatedFulfillmentSamples ==
    { [NoFulfillment EXCEPT !.status = "success", !.created_at = At(OrderedAt + 24)],
      [NoFulfillment EXCEPT !.status = "success", !.shipment_status = "delivered",
                            !.tracking_number = "A1",
                            !.created_at = At(OrderedAt + 24),
                            !.updated_at = At(OrderedAt + 72)],
      [NoFulfillment EXCEPT !.status = "fulfilled", !.shipment_status = "delivered",
                            !.created_at = At(OrderedAt)],
      [NoFulfillment EXCEPT !.status = "pending", !.shipment_status = "delivered",
                            !.created_at = At(OrderedAt - 1)],
      [NoFulfillment EXCEPT !.status = "cancelled", !.created_at = At(OrderedAt + 1)],
      [NoFulfillment EXCEPT !.status = "success", !.shipment_status = "in_transit",
                            !.tracking_numbers = Arr(<<"B2">>),
                            !.created_at = At(OrderedAt + 72)] }

TimelineInputs ==
    { [NoOrder EXCEPT !.id = 601, !.created_at = At(OrderedAt),
                      !.financial_status = fs, !.processed_at = p,
                      !.fulfillments = Arr(f)] :
        fs \in {"paid", "pending"},
        p \in {NoTime, At(OrderedAt), At(OrderedAt + 24)},
        f \in SeqsUpTo(DatedFulfillmentSamples, MaxFulfillments) }

\* Orders of every age of EnrichAges for the deadline analysis: nothing
\* shipped, shipped without and with a tracking number, delivered by status.
AnalysisInputs ==
    { [NoOrder EXCEPT !.id = 602, !.created_at = c, !.financial_status = "paid",
                      !.tags = t, !.fulfillments = f] :
        c \in EnrichAges,
        t \in { NoText, NotAString,
                Str(<<"E", "n", "t", "r", "e", "g", "u", "e">>),
                Str(<<"F", "i", "n", "a", "l", "i", "z", "a", "d", "o">>) },
        f \in { NoArray,
                Arr(<<[NoFulfillment EXCEPT !.status = "success",
                                            !.created_at = At(OrderedAt)]>>),
                Arr(<<[NoFulfillment EXCEPT !.status = "success",
                                            !.tracking_number = "A1",
                                            !.created_at = At(OrderedAt)]>>),
                Arr(<<[NoFulfillment EXCEPT !.status = "delivered",
                                            !.tracking_number = "A1",
                                            !.created_at = At(OrderedAt)]>>) } }

\* Every event of these orders carries a date.
DetailInputs == TimelineInputs \cup AnalysisInputs

HelperInputs ==
    ValidityInputs \cup DeliveryInputs \cup TrackingInputs \cup EnrichInputs
        \cup DetailInputs

InitHelpers ==
    /\ calls = <<>>
    /\ scopes = <<>>
    /\ variant = 0
    /\ query = NoText
    /\ order \in HelperInputs
    /\ result = NoResult
    /\ env = [SHOPIFY_ACCESS_TOKEN |-> Null, MAX_PAGES |-> "1"]
    /\ method = "GET"
    /\ pc = "helper"
    /\ pageCount = 0
    /\ allOrders = <<>>
    /\ currentPageInfo = Null
    /\ sent = <<>>
    /\ received = <<>>
    /\ res = <<>>

\* One helper is applied to the record, once.
Apply ==
    /\ pc = "helper"
    /\ result.applied = "none"
    /\ UNCHANGED <<listVars, order>>

ApplyIsValidOrder ==
    /\ Apply
    /\ result' = [result EXCEPT !.applied = "isValidOrder",
                                !.valid = isValidOrder(order)]

ApplyIsOrderDelivered ==
    /\ Apply
    /\ ~order.isNull
    /\ result' = [result EXCEPT !.applied = "isOrderDelivered",
                                !.delivered = isOrderDelivered(order)]

\* The tracking step of the list enrichment.
ApplyListTracking ==
    /\ Apply
    /\ ~order.isNull
    /\ result' = [result EXCEPT !.applied = "trackingNumbers",
                                !.tracking = trackingNumbersOf(order)]

\* The tracking step of the detail handler of order-details.js:259-789.
ApplyDetailTracking ==
    /\ Apply
    /\ ~order.isNull
    /\ result' = [result EXCEPT !.applied = "trackingData",
                                !.detail = detailTracking(order)]

\* The tracking step of the detail handler of order-details.js:796-1017.
ApplyLegacyTracking ==
    /\ Apply
    /\ ~order.isNull
    /\ result' = [result EXCEPT !.applied = "legacyTrackingNumbers",
                                !.legacy = legacyTrackingNumbers(order)]

\* The list pipeline on one record: the filter of line 304, the split of
\* lines 311-317 and, for an active order, the map callback of lines 326-404.
ApplyEnrichOrder ==
    /\ Apply
    /\ result' = [result EXCEPT
                      !.applied = "enrichOrder",
                      !.split = splitOf(order),
                      !.enriched = IF splitOf(order) = "active"
                                   THEN enrichFields(order, 0) ELSE @]

\* The analysis of the detail handler of order-details.js:259-789 on the order
\* the upstream returned.
ApplyProcessOrder ==
    /\ Apply
    /\ order \in DetailInputs
    /\ result' = [result EXCEPT !.applied = "processedOrder",
                                !.processed = processedOrder(order)]

NextHelpers ==
    \/ ApplyEnrichOrder
    \/ ApplyProcessOrder
    \/ ApplyIsValidOrder
    \/ ApplyIsOrderDelivered
    \/ ApplyListTracking
    \/ ApplyDetailTracking
    \/ ApplyLegacyTracking

HelperSpec == InitHelpers /\ [][NextHelpers]_vars

-----------------------------------------------------------------------------
(* The order-detail handlers, order-details.js *)

\* order-details.js holds three handlers, each a complete version of the
\* endpoint: variant 1 at lines 6-253, variant 2 at lines 259-789 and variant 3
\* at lines 796-1017.  One invocation runs one of them.
Variants == {1, 2, 3}

\* The token written into the source of variants 2 and 3, lines 287 and 823.
HardCodedToken == "shpat_hardcoded"

\* The access token a variant sends: variant 1 takes it from the environment
\* alone (line 36), variant 2 from the environment or the source (line 287),
\* variant 3 from the source (line 823).
detailToken(v, e) ==
    IF v = 1 THEN e.SHOPIFY_ACCESS_TOKEN
    ELSE IF v = 2 /\ Truthy(e.SHOPIFY_ACCESS_TOKEN) THEN e.SHOPIFY_ACCESS_TOKEN
    ELSE HardCodedToken

Digits == {"0", "1", "2", "3", "4", "5", "6", "7", "8", "9"}

\* /^\d+$/.test(orderId), order-details.js:306.
onlyDigits(x) ==
    /\ x.kind = "str"
    /\ x.text # <<>>
    /\ \A i \in DOMAIN x.text : x.text[i] \in Digits

\* The values of req.query.orderId drawn: absent, empty, digits, and two with
\* a character that is not a digit.
QuerySamples ==
    { NoText, Str(<<>>), Str(<<"4", "2">>), Str(<<"4", "a">>), Str(<<"-", "1">>) }

\* A body the detail handlers send.  success is "absent" where the body has no
\* such field, orders_count is Absent where the body has no customer.
detailResponse(status, success, error, count) ==
    [status |-> status, body |-> "json", success |-> success, error |-> error,
     orders_count |-> count]

\* res.status(200).end(), lines 15, 273 and 805.
detailOptionsResponse ==
    [status |-> 200, body |-> "none", success |-> "absent", error |-> "",
     orders_count |-> Absent]

\* Variant 2 writes success: false into every error body; variants 1 and 3
\* write it in the catch only.
errorSuccess(v) == IF v = 2 THEN "false" ELSE "absent"

\* The catch of each variant, lines 244-251, 778-788 and 1009-1015.
detailCatchResponse(v) ==
    detailResponse(500, "false",
                   IF v = 1 THEN "Erro interno do servidor"
                            ELSE "Erro ao processar pedido",
                   Absent)

\* The answer to an upstream status that is not 2xx, lines 55-68, 329-353 and
\* 838-845.
upstreamErrorResponse(v, status) ==
    IF status = 404
    THEN detailResponse(404, errorSuccess(v), "Pedido nao encontrado", Absent)
    ELSE IF v = 2 /\ status = 401
    THEN detailResponse(401, "false", "Nao autorizado", Absent)
    ELSE detailResponse(status, errorSuccess(v),
                        IF v = 1 THEN "Erro ao buscar pedido na Shopify"
                        ELSE "Erro ao buscar pedido",
                        Absent)

\* The requests of the detail handlers: the order (lines 44, 318, 826), and the
\* customer's history, which variants 1 and 3 read from
\* /customers/{id}/orders/count.json (lines 77, 853) and variant 2 from
\* /customers/{id}.json (line 375).
orderRequest(v, e, id) ==
    [resource |-> "order", orderId |-> id, customer_id |-> 0,
     token |-> detailToken(v, e)]

customerRequest(v, e, o) ==
    [resource |-> IF v = 2 THEN "customer" ELSE "orders_count",
     orderId |-> NoText, customer_id |-> o.customer_id,
     token |-> detailToken(v, e)]

\* The orders the upstream returns to the detail handlers: with and without a
\* customer, and one whose note is not a string.
DetailOrders ==
    { [NoOrder EXCEPT !.id = 42, !.created_at = At(OrderedAt),
                      !.financial_status = "paid", !.customer_id = c,
                      !.note = n] :
        c \in {0, 7}, n \in {NoText, NotAString} }

DetailErrorStatuses == {401, 404, 500}

\* The answers to the order request: a 2xx with an order, a 2xx whose JSON has
\* no order, a 2xx whose body does not parse, a status that is not 2xx, and a
\* fetch that rejects.
OrderResponses ==
    [kind : {"ok"}, status : {200}, json : {TRUE}, hasOrder : {TRUE},
     order : DetailOrders]
    \cup [kind : {"ok"}, status : {200}, json : BOOLEAN, hasOrder : {FALSE},
          order : {NoOrder}]
    \cup [kind : {"http_error"}, status : DetailErrorStatuses, json : {TRUE},
          hasOrder : {FALSE}, order : {NoOrder}]
    \cup [kind : {"network_error"}, status : {0}, json : {FALSE},
          hasOrder : {FALSE}, order : {NoOrder}]

\* The answers to the customer request.  count is the number the body carries
\* (count for variants 1 and 3, customer.orders_count for variant 2), Absent
\* where it carries none; customer tells whether the body has a customer
\* object, which only variant 2 reads.
CustomerResponses ==
    [kind : {"ok"}, status : {200}, json : {TRUE}, customer : BOOLEAN,
     count : {Absent, 0, 3}]
    \cup [kind : {"ok"}, status : {200}, json : {FALSE}, customer : {FALSE},
          count : {Absent}]
    \cup [kind : {"http_error"}, status : DetailErrorStatuses, json : {TRUE},
          customer : {FALSE}, count : {Absent}]
    \cup [kind : {"network_error"}, status : {0}, json : {FALSE},
          customer : {FALSE}, count : {Absent}]

\* let customerOrders = 0 (line 74), customerData.orders_count: 1 (line 367),
\* let customerOrders = 1 (line 850).
initialCustomerOrders(v) == IF v = 1 THEN 0 ELSE 1

\* The customer lookup, lines 75-91, 372-398 and 851-867, on the answer c: a
\* rejected fetch and an unreadable body land in the inner catch, a status that
\* is not 2xx skips the assignment, and each leaves the initial value.
customerOrdersOf(v, c) ==
    IF c.kind # "ok" \/ ~c.json THEN initialCustomerOrders(v)
    ELSE IF v = 2 /\ ~c.customer THEN initialCustomerOrders(v)
    ELSE IF c.count = Absent \/ c.count = 0
         THEN (IF v = 1 THEN 0 ELSE 1)
         ELSE c.count

\* Whether the processing after the customer lookup throws: variant 1 reads
\* the order's fields behind guards (lines 94-233), variant 2 is processedOrder,
\* variant 3 calls order.note.split on a truthy note (lines 874-875).
processingThrows(v, o) ==
    IF v = 1 THEN FALSE
    ELSE IF v = 2 THEN processedOrder(o).threw
    ELSE TruthyText(o.note) /\ o.note.kind # "str"

\* The body that ends the try, lines 239-242, 766-776 and 1004-1007, or the
\* catch when the processing throws.  customer is null in the body of an order
\* without a customer (lines 122, 642, 936).
finalResponse(v, o, count) ==
    IF processingThrows(v, o) THEN detailCatchResponse(v)
    ELSE detailResponse(200, "true", "",
                        IF o.customer_id # 0 THEN count ELSE Absent)

InitDetail ==
    /\ calls = <<>>
    /\ scopes = <<>>
    /\ variant \in Variants
    /\ query \in QuerySamples
    /\ env \in [SHOPIFY_ACCESS_TOKEN : TokenSettings, MAX_PAGES : {"1"}]
    /\ method \in Methods
    /\ pc = "start"
    /\ pageCount = 0
    /\ allOrders = <<>>
    /\ currentPageInfo = Null
    /\ sent = <<>>
    /\ received = <<>>
    /\ res = <<>>
    /\ order = NoOrder
    /\ result = NoResult

\* The preflight answer, lines 14-17, 272-274 and 804-806.
DetailOptions ==
    /\ variant \in Variants
    /\ pc = "start"
    /\ method = "OPTIONS"
    /\ res' = Append(res, detailOptionsResponse)
    /\ pc' = "done"
    /\ UNCHANGED <<calls, scopes, variant, query, env, method, pageCount, allOrders,
                   currentPageInfo, sent, received, order, result>>

\* From the method check to the order request, lines 20-53, 277-325 and
\* 809-836.
DetailBegin ==
    /\ variant \in Variants
    /\ pc = "start"
    /\ method # "OPTIONS"
    /\ IF method # "GET"
       THEN /\ res' = Append(res, detailResponse(405, errorSuccess(variant),
                                                 "Metodo nao permitido", Absent))
            /\ pc' = "done"
            /\ UNCHANGED sent
       ELSE IF ~TruthyText(query)
       THEN /\ res' = Append(res, detailResponse(400, errorSuccess(variant),
                                                 "ID do pedido e obrigatorio",
                                                 Absent))
            /\ pc' = "done"
            /\ UNCHANGED sent
       ELSE IF variant = 2 /\ ~onlyDigits(query)
       THEN /\ res' = Append(res, detailResponse(400, "false",
                                                 "ID do pedido invalido", Absent))
            /\ pc' = "done"
            /\ UNCHANGED sent
       ELSE IF variant = 1 /\ ~Truthy(env.SHOPIFY_ACCESS_TOKEN)
       THEN /\ res' = Append(res, detailResponse(500, "absent",
                                                 "Configuracao da API incompleta",
                                                 Absent))
            /\ pc' = "done"
            /\ UNCHANGED sent
       ELSE /\ sent' = Append(sent, orderRequest(variant, env, query))
            /\ pc' = "awaitOrder"
            /\ UNCHANGED res
    /\ UNCHANGED <<calls, scopes, variant, query, env, method, pageCount, allOrders,
                   currentPageInfo, received, order, result>>

\* The order request is answered, lines 55-75, 328-372 and 838-851: an error
\* answer, the catch, the customer request, or the final body of an order
\* without a customer.
OrderArrives ==
    /\ pc = "awaitOrder"
    /\ \E r \in OrderResponses :
        /\ received' = Append(received, r)
        /\ IF r.kind = "network_error"
           THEN /\ res' = Append(res, detailCatchResponse(variant))
                /\ pc' = "done"
                /\ UNCHANGED <<sent, order>>
           ELSE IF r.kind = "http_error"
           THEN /\ res' = Append(res, upstreamErrorResponse(variant, r.status))
                /\ pc' = "done"
                /\ UNCHANGED <<sent, order>>
           ELSE IF ~r.json \/ ~r.hasOrder
           THEN /\ res' = Append(res, detailCatchResponse(variant))
                /\ pc' = "done"
                /\ UNCHANGED <<sent, order>>
           ELSE IF r.order.customer_id # 0
           THEN /\ order' = r.order
                /\ sent' = Append(sent, customerRequest(variant, env, r.order))
                /\ pc' = "awaitCustomer"
                /\ UNCHANGED res
           ELSE /\ order' = r.order
                /\ res' = Append(res, finalResponse(variant, r.order,
                                                    initialCustomerOrders(variant)))
                /\ pc' = "done"
                /\ UNCHANGED sent
    /\ UNCHANGED <<calls, scopes, variant, query, env, method, pageCount, allOrders,
                   currentPageInfo, result>>

\* The customer request is answered and the handler runs to its end, lines
\* 84-242, 382-776 and 860-1007.
CustomerArrives ==
    /\ pc = "awaitCustomer"
    /\ \E c \in CustomerResponses :
        /\ received' = Append(received, c)
        /\ res' = Append(res, finalResponse(variant, order,
                                            customerOrdersOf(variant, c)))
        /\ pc' = "done"
    /\ UNCHANGED <<calls, scopes, variant, query, env, method, pageCount, allOrders,
                   currentPageInfo, sent, order, result>>

DetailNext == DetailOptions \/ DetailBegin \/ OrderArrives \/ CustomerArrives

DetailSpec == InitDetail /\ [][DetailNext]_vars

\* Every upstream call of a detail handler is answered in the end.
FairDetailSpec == DetailSpec /\ WF_vars(DetailNext)

-----------------------------------------------------------------------------
(* Upstream calls that never complete *)

\* An upstream call stays pending for ever.  The fetch calls carry no signal
\* and no timer is set around them (shopify-proxy.js:218-230,
\* order-details.js:47-53, 77-82, 321-327, 376-380, 829-835 and 854-858), so
\* the await never resumes and no later step of the handler runs.
CallNeverCompletes ==
    /\ pc \in {"awaitPage", "awaitOrder", "awaitCustomer"}
    /\ pc' = "pending"
    /\ UNCHANGED <<calls, scopes, variant, query, env, method, pageCount, allOrders,
                   currentPageInfo, sent, received, res, order, result>>

\* One invocation of the list handler or of a detail handler, with an
\* upstream that answers or stays silent.
InitAny == InitList \/ InitDetail

NextAny == Next \/ DetailNext \/ CallNeverCompletes

\* The steps of the handler are taken in the end; whether the upstream
\* answers is its own choice.
PendingSpec == InitAny /\ [][NextAny]_vars /\ WF_vars(NextAny)

-----------------------------------------------------------------------------
(* Invocations in flight at once *)

\* The platform runs a handler once per request, and a second request can
\* arrive while the first awaits an upstream call: the steps of two
\* invocations interleave at their awaits.
Invocations == {1, 2}

\* One scope for every invocation, as bindings declared at the top of the
\* module would be.
moduleScope(i) == 1

\* The scope that holds the bindings of invocation i.  allOrders,
\* currentPageInfo and pageCount are declared with let in the body of the
\* handler (shopify-proxy.js:263-265), order, customerData, trackingData and
\* trackingSet in the body of the detail handler (order-details.js:356, 366,
\* 403-404): each run of the body creates its own.
scopeOf(i) == i

\* The environment and the request of the concurrent invocations.
ConcurrentEnv == [SHOPIFY_ACCESS_TOKEN |-> "shpat_env", MAX_PAGES |-> "2"]

ConcurrentOrderId == Str(<<"4", "2">>)

\* The answers the upstream gives them: pages with and without a cursor, an
\* empty page and a refusal for the list; an order with and without a
\* customer and a refusal for the detail; a customer and a failed lookup.
ConcurrentPages ==
    { r \in UpstreamResponses :
        \/ /\ r.kind = "ok" /\ r.json
           /\ r.link = <<Link("next", "c1")>>
           /\ r.orders \in {Arr(<<1>>), Arr(<<2, 3>>)}
        \/ /\ r.kind = "ok" /\ r.json
           /\ r.link = <<>>
           /\ r.orders \in {Arr(<<>>), Arr(<<4, 6, 7>>)}
        \/ r.kind = "http_error" /\ r.status = 500 }

ConcurrentOrderResponses ==
    { r \in OrderResponses :
        \/ r.kind = "ok" /\ r.hasOrder /\ r.order.note = NoText
        \/ r.kind = "http_error" /\ r.status = 404 }

ConcurrentCustomerResponses ==
    { c \in CustomerResponses :
        \/ c.kind = "ok" /\ c.json /\ c.customer /\ c.count = 3
        \/ c.kind = "network_error" }

NoScope ==
    [allOrders |-> <<>>, currentPageInfo |-> Null, pageCount |-> 0,
     order |-> NoOrder]

NoCall(h) ==
    [handler |-> h, pc |-> "start", sent |-> <<>>, received |-> <<>>,
     res |-> <<>>]

InitConcurrent ==
    /\ calls \in [Invocations -> {NoCall("list"), NoCall("detail")}]
    /\ scopes = [s \in Invocations |-> NoScope]
    /\ variant = 0
    /\ query = NoText
    /\ env = ConcurrentEnv
    /\ method = "GET"
    /\ pc = "concurrent"
    /\ pageCount = 0
    /\ allOrders = <<>>
    /\ currentPageInfo = Null
    /\ sent = <<>>
    /\ received = <<>>
    /\ res = <<>>
    /\ order = NoOrder
    /\ result = NoResult

\* Invocation i runs from its start to its first await: the list handler
\* creates its accumulators and requests the first page (shopify-proxy.js:
\* 263-272), the detail handler requests the order (order-details.js:295-327).
CallBegins(i) ==
    /\ calls[i].pc = "start"
    /\ IF calls[i].handler = "list"
       THEN /\ scopes' = [scopes EXCEPT ![scopeOf(i)] =
                            [@ EXCEPT !.allOrders = <<>>,
                                      !.currentPageInfo = Null,
                                      !.pageCount = 1]]
            /\ calls' = [calls EXCEPT
                            ![i].pc = "awaitPage",
                            ![i].sent = Append(@, listingRequest(Null,
                                                    SHOPIFY_TOKEN(env)))]
       ELSE /\ calls' = [calls EXCEPT
                            ![i].pc = "awaitOrder",
                            ![i].sent = Append(@, orderRequest(2, env,
                                                    ConcurrentOrderId))]
            /\ UNCHANGED scopes
    /\ UNCHANGED <<variant, query, env, method, pc, pageCount, allOrders,
                   currentPageInfo, sent, received, res, order, result>>

\* A page request of invocation i is answered and the loop runs to its next
\* await or to the response, shopify-proxy.js:272-293 and 300-501.
CallPageArrives(i) ==
    /\ calls[i].pc = "awaitPage"
    /\ \E r \in ConcurrentPages :
          LET page == fetchOrdersPage(r)
              sc   == scopes[scopeOf(i)]
              all  == appendPage(sc.allOrders, page.orders)
          IN  IF page.threw
              THEN /\ calls' = [calls EXCEPT
                          ![i].pc = "done",
                          ![i].received = Append(@, r),
                          ![i].res = Append(@, errorResponse(page.message))]
                   /\ UNCHANGED scopes
              ELSE IF Len(page.orders) = 0
              THEN /\ calls' = [calls EXCEPT
                          ![i].pc = "done",
                          ![i].received = Append(@, r),
                          ![i].res = Append(@, listResponse(sc.allOrders,
                                                            sc.pageCount))]
                   /\ UNCHANGED scopes
              ELSE IF \/ reachedMaxPages(sc.pageCount, MAX_PAGES(env))
                      \/ ~Truthy(page.nextPageInfo)
              THEN /\ scopes' = [scopes EXCEPT ![scopeOf(i)] =
                          [@ EXCEPT !.allOrders = all,
                                    !.currentPageInfo = page.nextPageInfo]]
                   /\ calls' = [calls EXCEPT
                          ![i].pc = "done",
                          ![i].received = Append(@, r),
                          ![i].res = Append(@, listResponse(all, sc.pageCount))]
              ELSE /\ scopes' = [scopes EXCEPT ![scopeOf(i)] =
                          [@ EXCEPT !.allOrders = all,
                                    !.currentPageInfo = page.nextPageInfo,
                                    !.pageCount = sc.pageCount + 1]]
                   /\ calls' = [calls EXCEPT
                          ![i].received = Append(@, r),
                          ![i].sent = Append(@, listingRequest(page.nextPageInfo,
                                                    SHOPIFY_TOKEN(env)))]
    /\ UNCHANGED <<variant, query, env, method, pc, pageCount, allOrders,
                   currentPageInfo, sent, received, res, order, result>>

\* The order request of invocation i is answered, order-details.js:328-380.
CallOrderArrives(i) ==
    /\ calls[i].pc = "awaitOrder"
    /\ \E r \in ConcurrentOrderResponses :
          IF r.kind = "http_error"
          THEN /\ calls' = [calls EXCEPT
                      ![i].pc = "done",
                      ![i].received = Append(@, r),
                      ![i].res = Append(@, upstreamErrorResponse(2, r.status))]
               /\ UNCHANGED scopes
          ELSE IF r.order.customer_id # 0
          THEN /\ scopes' = [scopes EXCEPT ![scopeOf(i)].order = r.order]
               /\ calls' = [calls EXCEPT
                      ![i].pc = "awaitCustomer",
                      ![i].received = Append(@, r),
                      ![i].sent = Append(@, customerRequest(2, env, r.order))]
          ELSE /\ scopes' = [scopes EXCEPT ![scopeOf(i)].order = r.order]
               /\ calls' = [calls EXCEPT
                      ![i].pc = "done",
                      ![i].received = Append(@, r),
                      ![i].res = Append(@, finalResponse(2, r.order,
                                               initialCustomerOrders(2)))]
    /\ UNCHANGED <<variant, query, env, method, pc, pageCount, allOrders,
                   currentPageInfo, sent, received, res, order, result>>

\* The customer request of invocation i is answered and the handler runs to
\* its response, order-details.js:382-776.
CallCustomerArrives(i) ==
    /\ calls[i].pc = "awaitCustomer"
    /\ \E c \in ConcurrentCustomerResponses :
          calls' = [calls EXCEPT
              ![i].pc = "done",
              ![i].received = Append(@, c),
              ![i].res = Append(@, finalResponse(2, scopes[scopeOf(i)].order,
                                                 customerOrdersOf(2, c)))]
    /\ UNCHANGED <<scopes, variant, query, env, method, pc, pageCount,
                   allOrders, currentPageInfo, sent, received, res, order,
                   result>>

ConcurrentNext ==
    \E i \in Invocations :
        \/ CallBegins(i)
        \/ CallPageArrives(i)
        \/ CallOrderArrives(i)
        \/ CallCustomerArrives(i)

ConcurrentSpec == InitConcurrent /\ [][ConcurrentNext]_vars



-----------------------------------------------------------------------------
(* Properties of the page-fetch loop *)

\* The ceiling the invocation runs under is a number.
NumericCeiling == MAX_PAGES(env) # <<>>

\* The handler has answered from the try of line 260 or from its catch.
Answered == pc = "done" /\ Len(res) = 1

\* data.orders || [] of a recorded response.
RecordsOf(r) == IF r.kind = "ok" /\ r.json /\ r.orders.kind = "arr"
                THEN r.orders.items ELSE <<>>

\* The cursor a response hands out: the page_info of its rel="next" link.
NextCursorOf(r) ==
    IF \E i \in DOMAIN r.link : r.link[i].rel = "next" /\ Truthy(r.link[i].page_info)
    THEN r.link[CHOOSE i \in DOMAIN r.link : r.link[i].rel = "next"].page_info
    ELSE Null

\* The response is 2xx with a body that parses.
IsOk(r) == r.kind = "ok" /\ r.json

\* One of the three stop conditions holds at page k.
StopsAt(k) ==
    \/ NextCursorOf(received[k]) = Null
    \/ Len(RecordsOf(received[k])) = 0
    \/ (NumericCeiling /\ k >= MAX_PAGES(env)[1])

\* The loop ended at its last page without an error.
LoopEnded ==
    /\ pc = "done"
    /\ received # <<>>
    /\ IsOk(received[Len(received)])

\* While the loop runs no page fetched so far met a stop condition; when it
\* has ended, the last page is the first that meets one.
StopsAtFirstStopPage ==
    Exact(pageCount) =>
        /\ pc = "awaitPage" => \A k \in DOMAIN received : ~StopsAt(k)
        /\ LoopEnded =>
              /\ StopsAt(Len(received))
              /\ \A k \in 1..(Len(received) - 1) : ~StopsAt(k)

\* C1: for every sequence of upstream responses and every configured page
\* ceiling the page-fetch loop terminates, and it stops at the first page that
\* has no next cursor, has no records, or brings the page count to the ceiling.
C1_LoopTerminates == [](StopsAtFirstStopPage) /\ <>(pc = "done")

\* Every response received is 2xx, has records and carries a next cursor.
AlwaysMorePages ==
    \A k \in DOMAIN received :
        /\ IsOk(received[k])
        /\ Len(RecordsOf(received[k])) > 0
        /\ NextCursorOf(received[k]) # Null

\* C2: for every ceiling N >= 1, when every listing response is 2xx, non-empty
\* and carries a next cursor, the handler issues exactly N listing requests,
\* reports metadata.pages_processed = N and answers success = true.
C2_CeilingIsNotAnError ==
    (/\ Answered
     /\ NumericCeiling
     /\ MAX_PAGES(env)[1] >= 1
     /\ received # <<>>
     /\ AlwaysMorePages)
    => /\ Len(sent) = MAX_PAGES(env)[1]
       /\ res[1].pages_processed = MAX_PAGES(env)[1]
       /\ res[1].success

\* The same with the records of every page well-typed: the requests and the
\* page count are those of the ceiling.
C2_RequestsMatchCeiling ==
    (/\ Answered
     /\ NumericCeiling
     /\ MAX_PAGES(env)[1] >= 1
     /\ received # <<>>
     /\ AlwaysMorePages)
    => /\ Len(sent) = MAX_PAGES(env)[1]
       /\ res[1].success => res[1].pages_processed = MAX_PAGES(env)[1]
       /\ ~res[1].success => res[1].error = "TypeError"

\* C3: when the listing request for a page k returns a non-2xx status, no
\* further listing request is issued and the answer is success = false with an
\* empty orders list and an error message, however many pages came before.
C3_NonOkAbortsTheFetch ==
    \A k \in DOMAIN received :
        received[k].kind = "http_error" =>
            /\ k = Len(received)
            /\ Len(sent) = k
            /\ Answered
            /\ ~res[1].success
            /\ res[1].orders = <<>>
            /\ res[1].error = httpErrorMessage(received[k].status)
            /\ res[1].pages_processed = Absent

\* Two pages with records were fetched and the third request got a non-2xx.
C3_Witness ==
    /\ Answered
    /\ Len(received) = 3
    /\ received[3].kind = "http_error"
    /\ Len(allOrders) >= 3
    /\ ~res[1].success

RECURSIVE ConcatRecords(_)
ConcatRecords(rs) ==
    IF rs = <<>> THEN <<>>
    ELSE ConcatRecords(SubSeq(rs, 1, Len(rs) - 1)) \o RecordsOf(rs[Len(rs)])

RECURSIVE SumRecords(_)
SumRecords(rs) ==
    IF rs = <<>> THEN 0 ELSE Len(RecordsOf(Head(rs))) + SumRecords(Tail(rs))

\* C4: on a successful run the collection handed to the filter is the
\* concatenation, in page order and in within-page order, of the records of
\* every fetched page; the request for page k+1 uses exactly the cursor of the
\* response of page k and only the first request carries the creation-time
\* filter; stats.total_fetched is the sum of the pages' record counts.
C4_ConcatenationInPageOrder ==
    (Answered /\ res[1].success) =>
        /\ allOrders = ConcatRecords(received)
        /\ res[1].stats.total_fetched = SumRecords(received)
        /\ \A k \in DOMAIN sent :
              IF k = 1
              THEN sent[k].created_at_min /\ sent[k].page_info = Null
              ELSE /\ ~sent[k].created_at_min
                   /\ sent[k].page_info = NextCursorOf(received[k - 1])

\* A successful run of three pages, the second of two records, reached with a
\* header that lists a previous link before the next one.
C4_Witness ==
    /\ Answered
    /\ res[1].success
    /\ Len(received) = 3
    /\ Len(RecordsOf(received[2])) = 2
    /\ Len(received[1].link) = 2
    /\ sent[2].page_info = "c2"
    /\ allOrders = <<1, 2, 3, 4, 6, 7>>

\* C5: when the access token is absent from the environment the handler
\* answers with a configuration error and issues no upstream request.
C5_NoTokenNoUpstreamCall ==
    (~Truthy(env.SHOPIFY_ACCESS_TOKEN) /\ method # "OPTIONS") =>
        /\ sent = <<>>
        /\ pc = "done" => res = <<tokenErrorResponse>>

-----------------------------------------------------------------------------
(* Properties of isValidOrder *)

\* The record has an id and a created_at and carries no cancellation.
HasMinimalData(o) ==
    /\ ~o.isNull
    /\ o.id # 0
    /\ o.created_at # NoTime
    /\ o.cancelled_at \in {Null, ""}
    /\ o.cancel_reason \in {Null, ""}

\* An amount of the record in cents, a missing one counting as 0.
Cents(x) ==
    CASE x = Null     -> 0
      [] x = "50.00"  -> 5000
      [] x = "100"    -> 10000
      [] x = "100.00" -> 10000

\* Age of the record in whole days.
AgeInDays(o) == (Now - o.created_at[1]) \div 24

PartlyRefundedWithValueLeft(o) ==
    /\ o.financial_status = "partially_refunded"
    /\ Cents(o.total_refunds) < Cents(o.total_price)

RecentPending(o) ==
    /\ o.financial_status = "pending"
    /\ AgeInDays(o) <= 7

IsValidOrderApplied == pc = "helper" /\ result.applied = "isValidOrder"

\* C6 as stated: isValidOrder returns true exactly for the records with
\* minimal data, no cancellation, and a financial status that is paid,
\* authorized or partially_paid, or partially_refunded with value left, or
\* pending for at most 7 days; every other status is invalid.
C6_OnlyListedStatusesAreValid ==
    IsValidOrderApplied =>
        (result.valid <=>
            /\ HasMinimalData(order)
            /\ \/ order.financial_status \in {"paid", "authorized", "partially_paid"}
               \/ PartlyRefundedWithValueLeft(order)
               \/ RecentPending(order))

\* C6: isValidOrder returns true exactly for the records with minimal data and
\* no cancellation whose financial status is neither refunded nor voided, is
\* not partially_refunded with nothing left, and is not pending for more than
\* 7 whole days; a missing or unlisted status is valid.
C6_OnlyExcludedStatusesAreInvalid ==
    IsValidOrderApplied =>
        (result.valid <=>
            /\ HasMinimalData(order)
            /\ order.financial_status \notin {"refunded", "voided"}
            /\ order.financial_status = "partially_refunded"
                  => PartlyRefundedWithValueLeft(order)
            /\ order.financial_status = "pending" => RecentPending(order))

\* isValidOrder accepted a record without a financial status.
C6_Witness ==
    /\ IsValidOrderApplied
    /\ HasMinimalData(order)
    /\ order.financial_status = Null
    /\ result.valid

\* C7: for an otherwise-valid partially_refunded record isValidOrder returns
\* false exactly when total_refunds >= total_price, a missing amount counting
\* as 0, and true exactly when total_refunds < total_price.
C7_PartialRefundBoundary ==
    (/\ IsValidOrderApplied
     /\ HasMinimalData(order)
     /\ order.financial_status = "partially_refunded")
    => (result.valid <=> Cents(order.total_refunds) < Cents(order.total_price))

\* total_price = 100.00 with total_refunds = 100 was excluded.
C7_Witness ==
    /\ IsValidOrderApplied
    /\ HasMinimalData(order)
    /\ order.financial_status = "partially_refunded"
    /\ order.total_price = "100.00"
    /\ order.total_refunds = "100"
    /\ ~result.valid

-----------------------------------------------------------------------------
(* Properties of isOrderDelivered *)

\* (1) some fulfillment has shipment_status or status "delivered".
DeliveredFulfillmentSignal(o) ==
    /\ o.fulfillments.kind = "arr"
    /\ \E i \in DOMAIN o.fulfillments.items :
          /\ ~o.fulfillments.items[i].isNull
          /\ \/ o.fulfillments.items[i].shipment_status = "delivered"
             \/ o.fulfillments.items[i].status = "delivered"

\* (2) the tag samples whose lower-cased text contains one of the five words.
TagSignal(o) ==
    o.tags \in
        { Str(<<"E", "n", "t", "r", "e", "g", "u", "e">>),
          Str(<<"D", "E", "L", "I", "V", "E", "R", "E", "D">>),
          Str(<<"u", "n", "d", "e", "l", "i", "v", "e", "r", "e", "d">>),
          Str(<<"F", "i", "n", "a", "l", "i", "z", "a", "d", "o">>),
          Str(<<"c", "o", "n", "c", "l", "u", "i", "d", "o">>),
          Str(<<"C", "O", "M", "P", "L", "E", "T", "O">>) }

\* (3) the note samples whose lower-cased text contains entregue or delivered.
NoteSignal(o) ==
    o.note \in
        { Str(<<"o", "k", " ", "E", "n", "t", "r", "e", "g", "u", "e">>),
          Str(<<"D", "e", "l", "i", "v", "e", "r", "e", "d">>) }

\* (4) fulfilled and older than 60 whole days.
ElapsedTimeSignal(o) ==
    /\ o.fulfillment_status = "fulfilled"
    /\ o.created_at # NoTime
    /\ AgeInDays(o) > 60

DeliverySignal(o) ==
    \/ DeliveredFulfillmentSignal(o)
    \/ TagSignal(o)
    \/ NoteSignal(o)
    \/ ElapsedTimeSignal(o)

IsOrderDeliveredApplied == pc = "helper" /\ result.applied = "isOrderDelivered"

\* C8: isOrderDelivered returns true exactly when one of the signals (1)-(4)
\* holds; with only (4) present, ages 25 and 60 give false, 61 and 65 true.
C8_DeliveredIffSignal ==
    IsOrderDeliveredApplied =>
        ((~result.delivered.threw /\ result.delivered.value)
            <=> DeliverySignal(order))

\* Whenever isOrderDelivered returns, it returns whether a signal holds.
C8_ReturnedValueIsTheSignal ==
    (IsOrderDeliveredApplied /\ ~result.delivered.threw) =>
        (result.delivered.value <=> DeliverySignal(order))

\* C9: isOrderDelivered returns a boolean and never throws, for records with
\* missing fields, null entries in fulfillments, and tags or note values that
\* are not strings.
C9_IsOrderDeliveredNeverThrows ==
    IsOrderDeliveredApplied => ~result.delivered.threw

-----------------------------------------------------------------------------
(* Properties of the tracking lists *)

NoDuplicates(s) == \A i, j \in DOMAIN s : s[i] = s[j] => i = j

\* C10: in the list pipeline and in both detail handlers that build a tracking
\* list, the list holds no identifier twice, and has_tracking is true exactly
\* when the list is non-empty.
C10_TrackingListsHaveNoDuplicates ==
    /\ (pc = "helper" /\ result.applied = "trackingNumbers" /\ ~result.tracking.threw)
          => NoDuplicates(result.tracking.value)
    /\ (pc = "helper" /\ result.applied = "trackingData" /\ ~result.detail.threw)
          => /\ NoDuplicates(result.detail.tracking_numbers)
             /\ result.detail.has_tracking <=> result.detail.tracking_numbers # <<>>
    /\ (pc = "helper" /\ result.applied = "legacyTrackingNumbers" /\ ~result.legacy.threw)
          => NoDuplicates(result.legacy.value)

\* The list pipeline and the detail handler that collects into a Set.
C10_SetBasedListsHaveNoDuplicates ==
    /\ (pc = "helper" /\ result.applied = "trackingNumbers" /\ ~result.tracking.threw)
          => NoDuplicates(result.tracking.value)
    /\ (pc = "helper" /\ result.applied = "trackingData" /\ ~result.detail.threw)
          => /\ NoDuplicates(result.detail.tracking_numbers)
             /\ result.detail.has_tracking <=> result.detail.tracking_numbers # <<>>

-----------------------------------------------------------------------------
(* Properties of the enrichment of the list handler *)

\* The identifiers of a fulfillment in the order they are visited.
FulfillmentVisit(f) ==
    <<f.tracking_number>>
    \o (IF f.tracking_numbers.kind = "arr" THEN f.tracking_numbers.items ELSE <<>>)

RECURSIVE FulfillmentsVisit(_)
FulfillmentsVisit(fs) ==
    IF fs = <<>> THEN <<>>
    ELSE FulfillmentVisit(Head(fs)) \o FulfillmentsVisit(Tail(fs))

\* The order-level field, then fulfillment by fulfillment.
VisitSequence(o) ==
    (IF o.tracking_numbers.kind = "arr" THEN o.tracking_numbers.items ELSE <<>>)
    \o (IF o.fulfillments.kind = "arr"
        THEN FulfillmentsVisit(o.fulfillments.items) ELSE <<>>)

\* The non-empty entries of s, each at its first occurrence.
FirstOccurrences(s) ==
    LET first == SelectSeq([i \in DOMAIN s |-> i],
                           LAMBDA i : /\ s[i] \notin {Null, ""}
                                      /\ \A j \in 1..(i - 1) : s[j] # s[i])
    IN  [k \in DOMAIN first |-> s[first[k]]]

ListTrackingApplied ==
    pc = "helper" /\ result.applied = "trackingNumbers" /\ ~result.tracking.threw

\* The record went through the map callback of the list handler.
Enriched ==
    /\ pc = "helper"
    /\ result.applied = "enrichOrder"
    /\ result.split = "active"
    /\ ~result.enriched.threw

HasAnyTracking(o) == FirstOccurrences(VisitSequence(o)) # <<>>

\* C12: for an active order with tracking of age d whole days the pair
\* (prazo_status, urgency_level) is (critico, critical) if d > 20,
\* (atrasado, high) if 15 < d <= 20, (alerta, medium) if 12 < d <= 15 and
\* (no_prazo, normal) otherwise.
C12_LadderWithTracking ==
    (Enriched /\ HasAnyTracking(order)) =>
        LET d == AgeInDays(order)
            e == result.enriched.value
        IN  <<e.prazo_status, e.urgency_level>> =
                IF d > 20 THEN <<"critico", "critical">>
                ELSE IF d > 15 THEN <<"atrasado", "high">>
                ELSE IF d > 12 THEN <<"alerta", "medium">>
                ELSE <<"no_prazo", "normal">>

\* With tracking, prazo_status steps at 12, 15 and 20 whole days and
\* urgency_level at 13, 16 and 21.
C12_TwoLadders ==
    (Enriched /\ HasAnyTracking(order)) =>
        LET d == AgeInDays(order)
            e == result.enriched.value
        IN  /\ e.prazo_status =
                  IF d > 20 THEN "critico"
                  ELSE IF d > 15 THEN "atrasado"
                  ELSE IF d > 12 THEN "alerta" ELSE "no_prazo"
            /\ e.urgency_level =
                  IF d > 21 THEN "critical"
                  ELSE IF d > 16 THEN "high"
                  ELSE IF d > 13 THEN "medium" ELSE "normal"

\* The detail handler answered for the order.
Processed ==
    /\ pc = "helper"
    /\ result.applied = "processedOrder"
    /\ ~result.processed.threw

\* The pair of an order without tracking as the ladder states it.
PairWithoutTracking(d) ==
    IF d > 7 THEN <<"aguardando_urgente", "critical">>
    ELSE IF d > 3 THEN <<"aguardando", "medium">>
    ELSE <<"aguardando", "normal">>

\* C13: for an order without tracking that is not delivered the pair
\* (prazo_status, urgency_level) is (aguardando_urgente, critical) if d > 7,
\* (aguardando, medium) if 3 < d <= 7 and (aguardando, normal) if d <= 3, in
\* the list handler and in the detail handler.
C13_LadderWithoutTracking ==
    /\ (Enriched /\ ~HasAnyTracking(order)) =>
          <<result.enriched.value.prazo_status,
            result.enriched.value.urgency_level>>
              = PairWithoutTracking(AgeInDays(order))
    /\ (Processed /\ ~result.processed.is_delivered /\ ~HasAnyTracking(order)) =>
          <<result.processed.prazo_status, result.processed.urgency_level>>
              = PairWithoutTracking(AgeInDays(order))

\* Without tracking only the critical step at 7 days is common to both
\* handlers.
C13_CriticalStepOnly ==
    /\ (Enriched /\ ~HasAnyTracking(order) /\ AgeInDays(order) > 7) =>
          <<result.enriched.value.prazo_status,
            result.enriched.value.urgency_level>>
              = <<"aguardando_urgente", "critical">>
    /\ (Processed /\ ~result.processed.is_delivered /\ ~HasAnyTracking(order)
          /\ AgeInDays(order) > 7) =>
          <<result.processed.prazo_status, result.processed.urgency_level>>
              = <<"aguardando_urgente", "critical">>

\* C14: an order classified as delivered is in the terminal state
\* (urgency_level delivered, prazo_status concluido) whatever its age and
\* tracking; no answer carries is_delivered together with another urgency
\* level, and no order for which isOrderDelivered is true is among the orders
\* of the list handler.
C14_DeliveredIsTerminal ==
    /\ Processed =>
          /\ result.processed.is_delivered =>
                /\ result.processed.urgency_level = "delivered"
                /\ result.processed.prazo_status = "concluido"
          /\ ~result.processed.is_delivered =>
                /\ result.processed.urgency_level # "delivered"
                /\ result.processed.prazo_status # "concluido"
    /\ (pc = "helper" /\ result.applied = "enrichOrder" /\ DeliverySignal(order)) =>
          result.split # "active"
    /\ Enriched =>
          /\ result.enriched.value.urgency_level # "delivered"
          /\ ~result.enriched.value.analysis.isDelivered

\* A delivered order forty days old with a tracking number is in the terminal
\* state.
C14_Witness ==
    /\ Processed
    /\ result.processed.is_delivered
    /\ result.processed.has_tracking
    /\ AgeInDays(order) = 40
    /\ result.processed.urgency_level = "delivered"

\* C15: is_late and analysis.isLate are equal, and equal to
\* days_since_order > 15 with tracking and days_since_order > 7 without,
\* whatever urgency_level and prazo_status are.
C15_IsLateFromDaysAndTracking ==
    Enriched =>
        LET e == result.enriched.value
        IN  /\ e.is_late = e.analysis.isLate
            /\ e.days_since_order = AgeInDays(order)
            /\ e.has_tracking = HasAnyTracking(order)
            /\ e.is_late <=>
                  AgeInDays(order) > (IF HasAnyTracking(order) THEN 15 ELSE 7)

\* Sixteen days with tracking: late, while urgency_level is only normal or
\* medium.
C15_Witness ==
    /\ Enriched
    /\ HasAnyTracking(order)
    /\ AgeInDays(order) = 16
    /\ result.enriched.value.is_late
    /\ result.enriched.value.analysis.isLate
    /\ result.enriched.value.urgency_level = "medium"

\* C17: every order of the list handler or the detail handler has an integer
\* days_since_order >= 0, also for a created_at later than the clock.
C17_DaysAreNeverNegative ==
    /\ Enriched => result.enriched.value.days_since_order \in Nat
    /\ Processed => result.processed.days_since_order \in Nat

\* days_since_order is the floor of the age, negative only for a created_at
\* later than the clock.
C17_DaysAreTheFloorOfTheAge ==
    /\ Enriched =>
          /\ result.enriched.value.days_since_order \in Int
          /\ result.enriched.value.days_since_order >= 0
                <=> order.created_at[1] <= Now
    /\ Processed =>
          /\ result.processed.days_since_order \in Int
          /\ result.processed.days_since_order >= 0
                <=> order.created_at[1] <= Now

-----------------------------------------------------------------------------
(* Properties of the timeline *)

\* Position of an event in the order the events are generated.
GenerationRank(e) ==
    IF e.from = 0
    THEN (IF e.type = "order_created" THEN 0 ELSE 1)
    ELSE 2 * e.from + (IF e.type = "order_shipped" THEN 0 ELSE 1)

\* C18: the timeline is sorted ascending by event date, and events with equal
\* dates keep the order in which they were generated.
C18_TimelineSortedAndStable ==
    Processed =>
        LET t == result.processed.timeline
        IN  \A i, j \in DOMAIN t :
                i < j =>
                    /\ t[i].date[1] <= t[j].date[1]
                    /\ t[i].date[1] = t[j].date[1]
                          => GenerationRank(t[i]) < GenerationRank(t[j])

\* A timeline that was reordered (its first event comes from a fulfillment)
\* and holds a shipped and a delivered event of one date.
C18_Witness ==
    /\ Processed
    /\ Len(result.processed.timeline) >= 4
    /\ result.processed.timeline[1].from = 2
    /\ \E i, j \in DOMAIN result.processed.timeline :
          /\ i < j
          /\ result.processed.timeline[i].type = "order_shipped"
          /\ result.processed.timeline[j].type = "order_delivered"
          /\ result.processed.timeline[i].date = result.processed.timeline[j].date

\* The events the timeline of o is to hold.
ExpectedEvents(o) ==
    LET fs == IF o.fulfillments.kind = "arr" THEN o.fulfillments.items ELSE <<>>
    IN  {[type |-> "order_created", date |-> o.created_at, from |-> 0]}
        \cup {[type |-> "payment_confirmed",
               date |-> IF o.processed_at = NoTime THEN o.created_at
                        ELSE o.processed_at,
               from |-> 0] : x \in {y \in {0} : o.financial_status = "paid"}}
        \cup {[type |-> "order_shipped", date |-> fs[i].created_at, from |-> i] :
                i \in {k \in DOMAIN fs : fs[k].status \in {"success", "fulfilled"}}}
        \cup {[type |-> "order_delivered",
               date |-> IF fs[i].updated_at = NoTime THEN fs[i].created_at
                        ELSE fs[i].updated_at,
               from |-> i] :
                i \in {k \in DOMAIN fs : fs[k].shipment_status = "delivered"}}

\* C19: the timeline holds exactly one order_created event dated created_at,
\* one payment_confirmed event dated processed_at (created_at when absent)
\* iff financial_status is paid, one order_shipped event per fulfillment with
\* status success or fulfilled dated its created_at, one order_delivered event
\* per fulfillment with shipment_status delivered dated its updated_at
\* (created_at when absent), and no other event.
C19_TimelineEvents ==
    Processed =>
        LET t == result.processed.timeline
        IN  /\ {t[i] : i \in DOMAIN t} = ExpectedEvents(order)
            /\ Len(t) = Cardinality(ExpectedEvents(order))

\* A paid order never processed with a fulfillment delivered but never shipped
\* nor updated, and one shipped and delivered: all four types of event.
C19_Witness ==
    /\ Processed
    /\ order.financial_status = "paid"
    /\ order.processed_at = NoTime
    /\ Len(order.fulfillments.items) = 2
    /\ order.fulfillments.items[1].status = "pending"
    /\ order.fulfillments.items[1].shipment_status = "delivered"
    /\ order.fulfillments.items[2].updated_at # NoTime
    /\ Len(result.processed.timeline) = 5

-----------------------------------------------------------------------------
(* Properties of the statistics *)

\* tenths is count / active * 100 rounded to one decimal, in tenths.
RoundedPercentage(tenths, count, active) ==
    /\ tenths \in 0..1000
    /\ 2 * (tenths * active - 1000 * count) <= active
    /\ 2 * (1000 * count - tenths * active) <= active

\* C16: late_percentage and tracking_percentage are count / active_orders *
\* 100 rounded to one decimal and lie in [0, 100]; with no active order both
\* are 0.
C16_Percentages ==
    (Answered /\ res[1].success) =>
        LET st    == res[1].stats
            os    == res[1].orders
            late  == Cardinality({i \in DOMAIN os : os[i].is_late})
            track == Cardinality({i \in DOMAIN os : os[i].has_tracking})
        IN  /\ st.active_orders = Len(os)
            /\ IF Len(os) = 0
               THEN st.late_percentage = 0 /\ st.tracking_percentage = 0
               ELSE /\ RoundedPercentage(st.late_percentage, late, Len(os))
                    /\ RoundedPercentage(st.tracking_percentage, track, Len(os))

\* Three active orders, two of them late and one with tracking: 66.7 and 33.3.
C16_Witness ==
    /\ Answered
    /\ res[1].success
    /\ res[1].stats.active_orders = 3
    /\ res[1].stats.late_percentage = 667
    /\ res[1].stats.tracking_percentage = 333


\* The invocation has ended after a customer request whose answer failed: the
\* order request was answered with an order, the customer request with a
\* status that is not 2xx, a rejected fetch or a body that does not parse.
CustomerLookupFailed ==
    /\ pc = "done"
    /\ Len(sent) = 2
    /\ Len(received) = 2
    /\ received[1].kind = "ok"
    /\ (received[2].kind # "ok" \/ ~received[2].json)

\* The order fetched carries a note as Shopify sends it, a string or none, so
\* that the processing after the lookup runs to the end of the try.
NoteIsWellFormed == order.note.kind # "other"

\* C20: in every detail variant, when the order request succeeds and the
\* customer-history request fails (status not 2xx, rejected fetch, unreadable
\* body), the response has success = true and customer.orders_count = 1.
C20_FailedLookupReportsOneOrder ==
    (CustomerLookupFailed /\ NoteIsWellFormed)
        => /\ Len(res) = 1
           /\ res[1].status = 200
           /\ res[1].success = "true"
           /\ res[1].orders_count = 1

\* C20, what the code does: the failed lookup never fails the response, and
\* orders_count is the value the variant starts from, 0 in variant 1 and 1 in
\* variants 2 and 3.
C20_FailedLookupReportsInitialValue ==
    (CustomerLookupFailed /\ NoteIsWellFormed)
        => /\ Len(res) = 1
           /\ res[1].status = 200
           /\ res[1].success = "true"
           /\ res[1].orders_count = (IF variant = 1 THEN 0 ELSE 1)

C20_Witness ==
    /\ CustomerLookupFailed
    /\ NoteIsWellFormed
    /\ variant = 1
    /\ received[2].kind = "network_error"
    /\ res[1].success = "true"
    /\ res[1].orders_count = 0


\* A detail invocation has ended on an order request answered with a status
\* that is not 2xx.
OrderFetchRefused ==
    /\ variant \in Variants
    /\ pc = "done"
    /\ Len(received) = 1
    /\ received[1].kind = "http_error"

\* The status of the answer follows the upstream status, the 404 body differs
\* from the body of every other status, and the order request is the only
\* request sent.
UpstreamStatusIsMapped ==
    OrderFetchRefused =>
        /\ Len(res) = 1
        /\ Len(sent) = 1
        /\ sent[1].resource = "order"
        /\ res[1].status = received[1].status
        /\ (res[1].error = "Pedido nao encontrado") <=> (received[1].status = 404)

\* C21: an upstream 404 for the order is answered with the not-found response
\* (status 404), every other status that is not 2xx with a fetch error that
\* keeps the upstream status; in both cases success is false and no
\* customer-history request is sent.
C21_UpstreamErrorMapping ==
    /\ UpstreamStatusIsMapped
    /\ OrderFetchRefused => res[1].success = "false"

\* C21, what the code does: the mapping holds in every variant; the body has
\* success: false in variant 2 and no success field in variants 1 and 3.
C21_MappingWithoutSuccessField ==
    /\ UpstreamStatusIsMapped
    /\ OrderFetchRefused => res[1].success = errorSuccess(variant)

C21_Witness ==
    /\ OrderFetchRefused
    /\ variant = 3
    /\ received[1].status = 500
    /\ res[1].status = 500
    /\ res[1].success = "absent"

\* A GET whose orderId is missing or is not a non-empty string of digits.
MalformedOrderId ==
    /\ variant \in Variants
    /\ method = "GET"
    /\ ~onlyDigits(query)

\* C22: in every detail variant an orderId that is missing or is not a
\* non-empty string of decimal digits is answered with status 400 and no
\* upstream request is sent.
C22_MalformedIdIsRejected ==
    MalformedOrderId =>
        /\ sent = <<>>
        /\ pc = "done" => (Len(res) = 1 /\ res[1].status = 400)

\* C22, what the code does: a missing or empty orderId is rejected by every
\* variant; an orderId with a character that is not a digit is rejected by
\* variant 2 alone, variants 1 and 3 send it upstream (variant 1 when the
\* token is configured).
C22_OnlyVariantTwoChecksDigits ==
    /\ (MalformedOrderId /\ (variant = 2 \/ ~TruthyText(query))) =>
          /\ sent = <<>>
          /\ pc = "done" => (Len(res) = 1 /\ res[1].status = 400)
    /\ (MalformedOrderId /\ variant = 3 /\ TruthyText(query) /\ pc # "start") =>
          /\ Len(sent) >= 1
          /\ sent[1].orderId = query

C22_Witness ==
    /\ MalformedOrderId
    /\ variant = 3
    /\ pc = "awaitOrder"
    /\ query = Str(<<"4", "a">>)
    /\ Len(sent) = 1


\* C25: for every configured MAX_PAGES, 0 and negative values included, and
\* every upstream behaviour, the number of listing requests of one invocation
\* never exceeds the ceiling (no request at all under a ceiling of 0 or less).
C25_RequestsWithinCeiling ==
    (variant = 0 /\ NumericCeiling) =>
        Len(sent) <= (IF MAX_PAGES(env)[1] >= 0 THEN MAX_PAGES(env)[1] ELSE 0)

\* C25, what the code does: the do/while sends the first request before it
\* tests the ceiling, so a numeric ceiling bounds the requests by the larger
\* of the ceiling and 1.
C25_RequestsWithinCeilingOrOne ==
    (variant = 0 /\ NumericCeiling) =>
        Len(sent) <= (IF MAX_PAGES(env)[1] >= 1 THEN MAX_PAGES(env)[1] ELSE 1)

C25_Witness ==
    /\ variant = 0
    /\ NumericCeiling
    /\ MAX_PAGES(env)[1] = 0
    /\ Len(sent) = 1
    /\ pc = "done"


\* The detail handler and the list pipeline both ran to the end on the order.
BothPipelinesRan ==
    /\ Processed
    /\ ~isOrderDelivered(order).threw
    /\ ~enrichFields(order, 0).threw

\* C26: for the same order at the same time the detail handler reports the
\* is_delivered, has_tracking, prazo_status and urgency_level of the list
\* pipeline: is_delivered = isOrderDelivered(order), and for an order that is
\* not delivered the prazo_status and urgency_level of the list enrichment.
C26_DetailAgreesWithList ==
    BothPipelinesRan =>
        LET listed == enrichFields(order, 0).value
        IN  /\ result.processed.is_delivered = isOrderDelivered(order).value
            /\ result.processed.has_tracking = listed.has_tracking
            /\ ~result.processed.is_delivered =>
                  /\ result.processed.prazo_status = listed.prazo_status
                  /\ result.processed.urgency_level = listed.urgency_level

\* C26, what the code does: the detail handler knows fewer delivery signals
\* than isOrderDelivered, so an order it reports delivered is delivered for
\* the list too; both agree on has_tracking; an order that neither takes for
\* delivered has the urgency_level of the list when it has tracking, and the
\* same pair when it has none and is older than 7 days.
C26_DetailAgreesInPart ==
    BothPipelinesRan =>
        LET listed == enrichFields(order, 0).value
            d      == result.processed.days_since_order
        IN  /\ result.processed.is_delivered => isOrderDelivered(order).value
            /\ result.processed.has_tracking = listed.has_tracking
            /\ (~isOrderDelivered(order).value /\ listed.has_tracking) =>
                  result.processed.urgency_level = listed.urgency_level
            /\ (~isOrderDelivered(order).value /\ ~listed.has_tracking /\ d > 7) =>
                  /\ result.processed.prazo_status = listed.prazo_status
                  /\ result.processed.urgency_level = listed.urgency_level


\* The detail handler built tracking_info for the order.
DetailTrackingApplied ==
    /\ pc = "helper"
    /\ result.applied = "trackingData"
    /\ ~result.detail.threw

\* A fulfillment of the order pairs the identifier tn with the URL url: as
\* tracking_number and tracking_url, or at one index of tracking_numbers and
\* tracking_urls.
UpstreamPairs(tn, url) ==
    \E k \in DOMAIN order.fulfillments.items :
        LET f == order.fulfillments.items[k]
        IN  \/ f.tracking_number = tn /\ f.tracking_url = url
            \/ /\ f.tracking_numbers.kind = "arr"
               /\ f.tracking_urls.kind = "arr"
               /\ \E i \in DOMAIN f.tracking_numbers.items :
                     /\ i \in DOMAIN f.tracking_urls.items
                     /\ f.tracking_numbers.items[i] = tn
                     /\ f.tracking_urls.items[i] = url

\* C27: in every entry of tracking_info, tracking_urls is no longer than
\* tracking_numbers and index-aligned with it: tracking_urls[i] is the URL the
\* upstream fulfillment pairs with tracking_numbers[i].
C27_UrlsAlignedWithNumbers ==
    DetailTrackingApplied =>
        \A e \in DOMAIN result.detail.tracking_info :
            LET entry == result.detail.tracking_info[e]
            IN  /\ Len(entry.tracking_urls) <= Len(entry.tracking_numbers)
                /\ \A i \in DOMAIN entry.tracking_urls :
                      UpstreamPairs(entry.tracking_numbers[i],
                                    entry.tracking_urls[i])

\* C27, what the code does: tracking_urls is no longer than tracking_numbers
\* and keeps the order of the identifiers, but an identifier without a URL
\* leaves no gap, so tracking_urls[i] belongs to the identifier at index i or
\* at a later index.
C27_UrlsFollowNumbersWithoutGaps ==
    DetailTrackingApplied =>
        \A e \in DOMAIN result.detail.tracking_info :
            LET entry == result.detail.tracking_info[e]
            IN  /\ Len(entry.tracking_urls) <= Len(entry.tracking_numbers)
                /\ \A i \in DOMAIN entry.tracking_urls :
                      \E j \in DOMAIN entry.tracking_numbers :
                          /\ j >= i
                          /\ UpstreamPairs(entry.tracking_numbers[j],
                                           entry.tracking_urls[i])


\* C28: in every successful response of the list handler the counts are
\* consistent: total_fetched = total_invalid + valid_orders; valid_orders =
\* delivered_filtered + active_orders; the orders returned are active_orders
\* many; the four urgency counts, the two tracking counts and the two
\* lateness counts each add up to active_orders; last_7_days <= last_15_days
\* <= last_30_days and last_30_days + over_30_days = active_orders.
C28_CountsAreConsistent ==
    (variant = 0 /\ Answered /\ res[1].success) =>
        LET st == res[1].stats
        IN  /\ st.total_fetched = Len(allOrders)
            /\ st.total_fetched = st.total_invalid + st.valid_orders
            /\ st.valid_orders = st.delivered_filtered + st.active_orders
            /\ Len(res[1].orders) = st.active_orders
            /\ st.critical_orders + st.high_priority + st.medium_priority
                  + st.normal_priority = st.active_orders
            /\ st.with_tracking + st.without_tracking = st.active_orders
            /\ st.late_orders + st.on_time_orders = st.active_orders
            /\ st.last_7_days <= st.last_15_days
            /\ st.last_15_days <= st.last_30_days
            /\ st.last_30_days + st.over_30_days = st.active_orders

\* Five orders fetched: one cancelled, one delivered, three active of
\* different urgency.
C28_Witness ==
    /\ variant = 0
    /\ Answered
    /\ res[1].success
    /\ res[1].stats.total_fetched = 5
    /\ res[1].stats.total_invalid = 1
    /\ res[1].stats.delivered_filtered = 1
    /\ res[1].stats.active_orders = 3
    /\ res[1].stats.critical_orders = 1
    /\ res[1].stats.high_priority = 1
    /\ res[1].stats.normal_priority = 1
    /\ res[1].stats.last_7_days = 1
    /\ res[1].stats.last_15_days = 2
    /\ res[1].stats.last_30_days = 3


\* How many of the orders fetched at position p of the upstream are active,
\* and how many of the orders returned come from it.
ActiveFetched(p) ==
    Cardinality({k \in DOMAIN allOrders :
                    allOrders[k] = p /\ splitOf(UpstreamOrders[p]) = "active"})

ReturnedFrom(p) ==
    Cardinality({i \in DOMAIN res[1].orders : res[1].orders[i].source = p})

\* C29: the orders returned by the list handler are a permutation of the
\* enriched active orders in which every adjacent pair (a, b) has the urgency
\* rank of a (critical > high > medium > normal) at least that of b and, at
\* equal rank, days_since_order of a at least that of b.
C29_OrdersSortedByUrgencyThenAge ==
    (variant = 0 /\ Answered /\ res[1].success) =>
        LET os == res[1].orders
        IN  /\ \A p \in DOMAIN UpstreamOrders : ReturnedFrom(p) = ActiveFetched(p)
            /\ \A i \in DOMAIN os : os[i] = enrichOrder(os[i].source).value
            /\ \A i \in 1..(Len(os) - 1) :
                  /\ urgencyOrder(os[i].urgency_level)
                        >= urgencyOrder(os[i + 1].urgency_level)
                  /\ (os[i].urgency_level = os[i + 1].urgency_level) =>
                        os[i].days_since_order >= os[i + 1].days_since_order

\* Fetched in the order 1, 4, 6, 7 and returned as 6 (critical), then 7 and 1,
\* both normal, the older first.
C29_Witness ==
    /\ variant = 0
    /\ Answered
    /\ res[1].success
    /\ allOrders = <<1, 4, 6, 7>>
    /\ Len(res[1].orders) = 3
    /\ res[1].orders[1].source = 6
    /\ res[1].orders[2].source = 7
    /\ res[1].orders[3].source = 1
    /\ res[1].orders[2].urgency_level = res[1].orders[3].urgency_level
    /\ res[1].orders[2].days_since_order > res[1].orders[3].days_since_order


\* C24: every invocation sends a response in the end even when an upstream
\* call never completes: each call is bounded by a timeout, and a call that
\* timed out is answered like a call with a status that is not 2xx.
C24_PendingCallIsAnswered == (pc = "pending") ~> (pc = "done" /\ Len(res) = 1)

\* C24, what the code does: once a call stays pending the invocation sends
\* nothing, then or later.
C24_PendingCallIsNeverAnswered ==
    [][pc = "pending" => (pc' = "pending" /\ res' = <<>>)]_vars

\* C30: every invocation of every handler sends exactly one response, never
\* none and never two, for every method and every upstream outcome.
C30_ExactlyOneResponse == [](Len(res) <= 1) /\ <>(Len(res) = 1)

\* C30, the half that holds in every handler: never two responses, and a
\* response exactly when the invocation has ended.
C30_AtMostOneResponse ==
    /\ Len(res) <= 1
    /\ (pc = "done") <=> (Len(res) = 1)

\* C30 for the detail handlers: the one response is sent in the end.
C30_DetailRespondsOnce ==
    [](Len(res) <= 1) /\ <>(pc = "done" /\ Len(res) = 1)


\* The response the handler of call c gives to its own request and its own
\* upstream answers, run alone.
OwnResponse(c) ==
    IF c.handler = "list"
    THEN LET last == fetchOrdersPage(c.received[Len(c.received)])
         IN  IF last.threw THEN errorResponse(last.message)
             ELSE listResponse(ConcatRecords(c.received), Len(c.received))
    ELSE IF c.received[1].kind = "http_error"
    THEN upstreamErrorResponse(2, c.received[1].status)
    ELSE IF Len(c.received) = 1
    THEN finalResponse(2, c.received[1].order, initialCustomerOrders(2))
    ELSE finalResponse(2, c.received[1].order,
                       customerOrdersOf(2, c.received[2]))

\* C23: for two invocations interleaved at their awaits, the response of each
\* is a function of its own request and its own upstream answers: no
\* accumulator (orders fetched, page counter, cursor, order) is shared.
C23_ResponsesDependOnOwnCallsOnly ==
    \A i \in DOMAIN calls :
        /\ Len(calls[i].res) <= 1
        /\ calls[i].pc = "done" =>
              /\ Len(calls[i].res) = 1
              /\ calls[i].res[1] = OwnResponse(calls[i])
        /\ calls[i].pc = "awaitPage" =>
              /\ scopes[i].allOrders = ConcatRecords(calls[i].received)
              /\ scopes[i].pageCount = Len(calls[i].sent)

\* Two list invocations were both between their first and second page, with
\* different orders fetched, and the second to finish has answered with its
\* own two pages.
C23_Witness ==
    /\ DOMAIN calls = Invocations
    /\ calls[1].handler = "list"
    /\ calls[2].handler = "list"
    /\ calls[1].pc = "done"
    /\ calls[2].pc = "awaitPage"
    /\ Len(calls[1].received) = 2
    /\ Len(calls[2].received) = 1
    /\ RecordsOf(calls[1].received[1]) = <<1>>
    /\ RecordsOf(calls[2].received[1]) = <<2, 3>>
    /\ calls[1].res[1].success
    /\ calls[1].res[1].stats.total_fetched = 4

=============================================================================
